---------------------------- MODULE Spec2Model ----------------------------
(***************************************************************************)
(* A model of the greenlight movie API: the movie record store with its   *)
(* optimistic-concurrency update (internal/data/movies.go), the validator *)
(* (internal/validator/validator.go), the Runtime JSON codec              *)
(* (internal/data/runtime.go) and the movie handlers (cmd/api/movies.go). *)
(*                                                                         *)
(* The database is modelled as a reliable store that executes each SQL    *)
(* statement atomically; created_at is assigned by the database and is    *)
(* read by no decision of the code, so it is left out of the rows.        *)
(***************************************************************************)
EXTENDS Integers, Sequences, FiniteSets, TLC

VARIABLES
    db,        \* the movies table: a function from the ids that have a row to the row
    nextID,    \* the next value of the id sequence of the movies table
    movie,     \* per process: the *Movie it holds (<<>> is the nil pointer)
    pc,        \* per process: where it stands in the request it serves
    params,    \* per process: the id parameter of the request it is serving
    last,      \* the store call made by the latest step and what it returned
    updates,   \* per id with a row: the Updates of it that returned nil (history)
    deleted,   \* the ids whose row a Delete removed (history)
    req,       \* the request the latest step served (route and id parameter)
    resp,      \* what the latest step wrote to the response of its request
    validator, \* the Validator under test
    checks,    \* the Check calls made on the Validator so far (history)
    subject,   \* the movie ValidateMovie was applied to (<<>> when none)
    rt,        \* the Runtime codec under test
    rj         \* readJSON under test: the request body and what it returned

vars == <<db, nextID, movie, pc, params, last, updates, deleted, req, resp,
          validator, checks, subject, rt, rj>>
apiVars == <<db, nextID, movie, pc, params, last, updates, deleted, req, resp>>
otherVars == <<validator, checks, subject, rt, rj>>

----------------------------------------------------------------------------
(* Bounds of the model *)

MaxID == 2
MaxVersion == 2
MaxChecks == 3
MaxGenres == 6
MaxRuntime == 150

(* The two concurrent callers of the store / clients of the API *)
Procs == {"A", "B"}

----------------------------------------------------------------------------
(* Errors: the nil error and the sentinel errors of package data *)

Nil == "nil"
ErrRecordNotFound == "record not found"
ErrEditConflict == "edit conflict"
ErrInvalidRuntimeFormat == "invalid runtime format"

----------------------------------------------------------------------------
(* Slices: Go distinguishes the nil slice from the empty slice *)

NilSlice == [isNil |-> TRUE, elems |-> <<>>]
Slice(elems) == [isNil |-> FALSE, elems |-> elems]

(* The zero value of the Movie struct *)
ZeroMovie ==
    [ID |-> 0, Title |-> <<>>, Year |-> 0, Runtime |-> 0, Genres |-> NilSlice,
     Version |-> 0]

(* The columns of a row of the movies table that the queries read or write *)
Row(m, version) ==
    [title |-> m.Title, year |-> m.Year, runtime |-> m.Runtime,
     genres |-> m.Genres, version |-> version]

----------------------------------------------------------------------------
(* The movies table.  The schema (migrations, not part of the sources at   *)
(* hand) gives id a bigserial sequence and version the default 1.          *)

DefaultVersion == 1

(* The id the sequence hands to the next inserted row: ids are never reused *)
NextSerial(nid) == nid + 1

HasRow(d, id) == id \in DOMAIN d

(* The Movie a SELECT of the row with this id scans *)
RowMovie(d, id) ==
    [ID |-> id, Title |-> d[id].title, Year |-> d[id].year,
     Runtime |-> d[id].runtime, Genres |-> d[id].genres,
     Version |-> d[id].version]

(* INSERT INTO movies (title, year, runtime, genres) VALUES ...            *)
(* RETURNING id, created_at, version: scanned into the caller's movie      *)
Insert(d, nid, m) ==
    [db    |-> [i \in (DOMAIN d) \cup {nid} |->
                   IF i = nid THEN Row(m, DefaultVersion) ELSE d[i]],
     movie |-> [m EXCEPT !.ID = nid, !.Version = DefaultVersion],
     next  |-> NextSerial(nid),
     err   |-> Nil]

(* SELECT ... FROM movies WHERE id = $1; no query is issued when id < 1 *)
Get(d, id) ==
    IF id < 1
    THEN [movie |-> <<>>, err |-> ErrRecordNotFound, queried |-> FALSE]
    ELSE IF HasRow(d, id)
         THEN [movie |-> <<RowMovie(d, id)>>, err |-> Nil, queried |-> TRUE]
         ELSE [movie |-> <<>>, err |-> ErrRecordNotFound, queried |-> TRUE]

(* A plausible slip: the WHERE clause of the UPDATE tests the id alone *)
UpdateIgnoringVersion(d, m) ==
    IF HasRow(d, m.ID)
    THEN [db    |-> [d EXCEPT ![m.ID] = Row(m, d[m.ID].version + 1)],
          movie |-> [m EXCEPT !.Version = d[m.ID].version + 1],
          err   |-> Nil]
    ELSE [db |-> d, movie |-> m, err |-> ErrEditConflict]

(* A plausible slip: a failed UPDATE still writes the caller's fields *)
UpdateWritingOnConflict(d, m) ==
    IF HasRow(d, m.ID) /\ d[m.ID].version = m.Version
    THEN [db    |-> [d EXCEPT ![m.ID] = Row(m, d[m.ID].version + 1)],
          movie |-> [m EXCEPT !.Version = d[m.ID].version + 1],
          err   |-> Nil]
    ELSE [db    |-> IF HasRow(d, m.ID)
                    THEN [d EXCEPT ![m.ID] = Row(m, d[m.ID].version)]
                    ELSE d,
          movie |-> m,
          err   |-> ErrEditConflict]

(* A plausible slip: the UPDATE sets version = version + 2 *)
UpdateSkippingVersion(d, m) ==
    IF HasRow(d, m.ID) /\ d[m.ID].version = m.Version
    THEN [db    |-> [d EXCEPT ![m.ID] = Row(m, d[m.ID].version + 2)],
          movie |-> [m EXCEPT !.Version = d[m.ID].version + 2],
          err   |-> Nil]
    ELSE [db |-> d, movie |-> m, err |-> ErrEditConflict]

(* UPDATE movies SET title, year, runtime, genres, version = version + 1   *)
(* WHERE id = $5 AND version = $6 RETURNING version: one atomic statement; *)
(* no row returned (sql.ErrNoRows) is ErrEditConflict                      *)
Update(d, m) ==
    IF HasRow(d, m.ID) /\ d[m.ID].version = m.Version
    THEN [db    |-> [d EXCEPT ![m.ID] = Row(m, d[m.ID].version + 1)],
          movie |-> [m EXCEPT !.Version = d[m.ID].version + 1],
          err   |-> Nil]
    ELSE [db |-> d, movie |-> m, err |-> ErrEditConflict]

(* A plausible slip: the id < 1 guard of Delete is missing *)
DeleteWithoutGuard(d, id) ==
    IF HasRow(d, id)
    THEN [db |-> [i \in (DOMAIN d) \ {id} |-> d[i]], err |-> Nil,
          queried |-> TRUE]
    ELSE [db |-> d, err |-> ErrRecordNotFound, queried |-> TRUE]

(* A plausible slip: Delete does not look at RowsAffected *)
DeleteIgnoringRowsAffected(d, id) ==
    IF id < 1
    THEN [db |-> d, err |-> ErrRecordNotFound, queried |-> FALSE]
    ELSE [db |-> [i \in (DOMAIN d) \ {id} |-> d[i]], err |-> Nil,
          queried |-> TRUE]

(* DELETE FROM movies WHERE id = $1; zero rows affected is ErrRecordNotFound *)
Delete(d, id) ==
    IF id < 1
    THEN [db |-> d, err |-> ErrRecordNotFound, queried |-> FALSE]
    ELSE IF HasRow(d, id)
         THEN [db |-> [i \in (DOMAIN d) \ {id} |-> d[i]], err |-> Nil,
               queried |-> TRUE]
         ELSE [db |-> d, err |-> ErrRecordNotFound, queried |-> TRUE]

----------------------------------------------------------------------------
(* The validator: a map of validation errors, field name -> message *)

New == [Errors |-> <<>>]

(* A plausible slip: the comparison of the size of the errors map is off *)
ValidNonNegative(val) == Cardinality(DOMAIN val.Errors) >= 0

(* Valid returns true if the errors map is empty *)
Valid(val) == Cardinality(DOMAIN val.Errors) = 0

(* A plausible slip: AddError stores the message whether or not the key exists *)
AddErrorOverwriting(val, key, message) ==
    [Errors |-> [k \in (DOMAIN val.Errors) \cup {key} |->
                    IF k = key THEN message ELSE val.Errors[k]]]

(* AddError adds the message unless the key already has one *)
AddError(val, key, message) ==
    IF key \in DOMAIN val.Errors
    THEN val
    ELSE [Errors |-> [k \in (DOMAIN val.Errors) \cup {key} |->
                         IF k = key THEN message ELSE val.Errors[k]]]

(* Check adds the message when the condition is false *)
Check(val, ok, key, message) ==
    IF ~ok THEN AddError(val, key, message) ELSE val

(* Unique: the number of values equals the number of distinct values *)
Unique(values) ==
    Len(values.elems) =
        Cardinality({values.elems[i] : i \in 1 .. Len(values.elems)})

----------------------------------------------------------------------------
(* The Runtime codec.  A Go string is modelled as the sequence of its      *)
(* bytes.  A printable ASCII byte is the one-character string of that      *)
(* character; the bytes that cannot be written so carry a name (ByteTable). *)

MinInt32 == -2147483647 - 1
MaxInt32 == 2147483647

Digits == <<"0", "1", "2", "3", "4", "5", "6", "7", "8", "9">>
DigitSet == {Digits[i] : i \in 1 .. 10}
DigitValue(c) == CHOOSE d \in 0 .. 9 : Digits[d + 1] = c

(* The bytes that cannot be written inside a string of the model are named *)
Quote2 == "DQUOTE"
Quote1 == "SQUOTE"
BackQuote == "BACKQUOTE"
BackSlash == "BACKSLASH"
NewLine == "NEWLINE"
CarriageReturn == "CR"

(* The 256 bytes in the order of their codes: ByteTable[code + 1] *)
ByteTable ==
    <<"0x00", "0x01", "0x02", "0x03", "0x04", "0x05", "0x06", "BEL",
       "BS", "TAB", "NEWLINE", "VT", "FF", "CR", "0x0E", "0x0F",
       "0x10", "0x11", "0x12", "0x13", "0x14", "0x15", "0x16", "0x17",
       "0x18", "0x19", "0x1A", "0x1B", "0x1C", "0x1D", "0x1E", "0x1F",
       " ", "!", "DQUOTE", "#", "$", "%", "&", "SQUOTE",
       "(", ")", "*", "+", ",", "-", ".", "/",
       "0", "1", "2", "3", "4", "5", "6", "7",
       "8", "9", ":", ";", "<", "=", ">", "?",
       "@", "A", "B", "C", "D", "E", "F", "G",
       "H", "I", "J", "K", "L", "M", "N", "O",
       "P", "Q", "R", "S", "T", "U", "V", "W",
       "X", "Y", "Z", "[", "BACKSLASH", "]", "^", "_",
       "BACKQUOTE", "a", "b", "c", "d", "e", "f", "g",
       "h", "i", "j", "k", "l", "m", "n", "o",
       "p", "q", "r", "s", "t", "u", "v", "w",
       "x", "y", "z", "{", "|", "}", "~", "0x7F",
       "0x80", "0x81", "0x82", "0x83", "0x84", "0x85", "0x86", "0x87",
       "0x88", "0x89", "0x8A", "0x8B", "0x8C", "0x8D", "0x8E", "0x8F",
       "0x90", "0x91", "0x92", "0x93", "0x94", "0x95", "0x96", "0x97",
       "0x98", "0x99", "0x9A", "0x9B", "0x9C", "0x9D", "0x9E", "0x9F",
       "0xA0", "0xA1", "0xA2", "0xA3", "0xA4", "0xA5", "0xA6", "0xA7",
       "0xA8", "0xA9", "0xAA", "0xAB", "0xAC", "0xAD", "0xAE", "0xAF",
       "0xB0", "0xB1", "0xB2", "0xB3", "0xB4", "0xB5", "0xB6", "0xB7",
       "0xB8", "0xB9", "0xBA", "0xBB", "0xBC", "0xBD", "0xBE", "0xBF",
       "0xC0", "0xC1", "0xC2", "0xC3", "0xC4", "0xC5", "0xC6", "0xC7",
       "0xC8", "0xC9", "0xCA", "0xCB", "0xCC", "0xCD", "0xCE", "0xCF",
       "0xD0", "0xD1", "0xD2", "0xD3", "0xD4", "0xD5", "0xD6", "0xD7",
       "0xD8", "0xD9", "0xDA", "0xDB", "0xDC", "0xDD", "0xDE", "0xDF",
       "0xE0", "0xE1", "0xE2", "0xE3", "0xE4", "0xE5", "0xE6", "0xE7",
       "0xE8", "0xE9", "0xEA", "0xEB", "0xEC", "0xED", "0xEE", "0xEF",
       "0xF0", "0xF1", "0xF2", "0xF3", "0xF4", "0xF5", "0xF6", "0xF7",
       "0xF8", "0xF9", "0xFA", "0xFB", "0xFC", "0xFD", "0xFE", "0xFF" >>

(* byte(code) *)
ByteOf(code) == ByteTable[code + 1]

(* The code of a byte *)
CodeOf(c) == CHOOSE code \in 0 .. 255 : ByteTable[code + 1] = c

(* unicode/utf8: the first code that is not a one-byte rune, the rune that *)
(* stands for a decoding error, the largest rune                           *)
RuneSelf == 128
RuneError == 65533
MaxRune == 1114111

(* utf8.ValidRune: in range and not a surrogate half *)
ValidRune(r) == (0 <= r /\ r < 55296) \/ (57343 < r /\ r <= MaxRune)

(* A continuation byte of a UTF-8 sequence; -1 stands for a missing byte *)
Continuation(b) == b \in 128 .. 191

(* The range of the second byte after the leading byte b0 of a sequence of *)
(* three or four bytes (overlong forms, surrogates and runes beyond        *)
(* MaxRune are not encodings)                                              *)
SecondByte(b0, b1) ==
    CASE b0 = 224 -> b1 \in 160 .. 191
      [] b0 = 237 -> b1 \in 128 .. 159
      [] b0 = 240 -> b1 \in 144 .. 191
      [] b0 = 244 -> b1 \in 128 .. 143
      [] OTHER -> Continuation(b1)

(* utf8.DecodeRuneInString for the codes of the first four bytes: the rune *)
(* and the number of bytes of its encoding; (RuneError, 1) when the bytes   *)
(* do not start with an encoding                                           *)
DecodeRuneCodes(b0, b1, b2, b3) ==
    CASE b0 < RuneSelf -> [r |-> b0, size |-> 1]
      [] b0 \in 194 .. 223 /\ Continuation(b1) ->
            [r |-> (b0 - 192) * 64 + (b1 - 128), size |-> 2]
      [] b0 \in 224 .. 239 /\ SecondByte(b0, b1) /\ Continuation(b2) ->
            [r |-> (b0 - 224) * 4096 + (b1 - 128) * 64 + (b2 - 128),
             size |-> 3]
      [] /\ b0 \in 240 .. 244
         /\ SecondByte(b0, b1)
         /\ Continuation(b2)
         /\ Continuation(b3) ->
            [r |-> (b0 - 240) * 262144 + (b1 - 128) * 4096
                       + (b2 - 128) * 64 + (b3 - 128),
             size |-> 4]
      [] OTHER -> [r |-> RuneError, size |-> 1]

(* utf8.DecodeRuneInString; (RuneError, 0) for the empty string.  A byte   *)
(* the string lacks has the code -1.                                       *)
DecodeRune(s) ==
    IF s = <<>>
    THEN [r |-> RuneError, size |-> 0]
    ELSE DecodeRuneCodes(CodeOf(s[1]),
                         IF Len(s) >= 2 THEN CodeOf(s[2]) ELSE -1,
                         IF Len(s) >= 3 THEN CodeOf(s[3]) ELSE -1,
                         IF Len(s) >= 4 THEN CodeOf(s[4]) ELSE -1)

(* utf8.AppendRune: the encoding of a rune, that of RuneError for a rune   *)
(* that has none                                                           *)
EncodeRune(r) ==
    IF ~ValidRune(r)
    THEN <<ByteOf(239), ByteOf(191), ByteOf(189)>>
    ELSE IF r < RuneSelf
    THEN <<ByteOf(r)>>
    ELSE IF r < 2048
    THEN <<ByteOf(192 + (r \div 64)), ByteOf(128 + (r % 64))>>
    ELSE IF r < 65536
    THEN <<ByteOf(224 + (r \div 4096)), ByteOf(128 + ((r \div 64) % 64)),
           ByteOf(128 + (r % 64))>>
    ELSE <<ByteOf(240 + (r \div 262144)), ByteOf(128 + ((r \div 4096) % 64)),
           ByteOf(128 + ((r \div 64) % 64)), ByteOf(128 + (r % 64))>>

(* utf8.ValidString *)
RECURSIVE ValidString(_)
ValidString(s) ==
    IF s = <<>>
    THEN TRUE
    ELSE IF CodeOf(s[1]) < RuneSelf
    THEN ValidString(Tail(s))
    ELSE IF DecodeRune(s).size = 1
    THEN FALSE
    ELSE ValidString(SubSeq(s, DecodeRune(s).size + 1, Len(s)))

(* The hexadecimal digits strconv writes, and the value of one it reads:   *)
(* -1 for a byte that is no hexadecimal digit                              *)
LowerHex == <<"0", "1", "2", "3", "4", "5", "6", "7", "8", "9",
              "a", "b", "c", "d", "e", "f">>
UpperHex == <<"0", "1", "2", "3", "4", "5", "6", "7", "8", "9",
              "A", "B", "C", "D", "E", "F">>
unhex(c) ==
    IF \E i \in 1 .. 16 : LowerHex[i] = c
    THEN (CHOOSE i \in 1 .. 16 : LowerHex[i] = c) - 1
    ELSE IF \E i \in 1 .. 16 : UpperHex[i] = c
    THEN (CHOOSE i \in 1 .. 16 : UpperHex[i] = c) - 1
    ELSE -1

Contains(s, c) == \E i \in 1 .. Len(s) : s[i] = c

(* The index of the first occurrence of c in s, 0 when there is none *)
IndexByte(s, c) ==
    IF Contains(s, c)
    THEN CHOOSE i \in 1 .. Len(s) :
             s[i] = c /\ \A j \in 1 .. (i - 1) : s[j] # c
    ELSE 0

(* The decimal digits of |n|, most significant first, for an int32 n <= 0; *)
(* the magnitude of MinInt32 does not fit an int32, so n is never negated  *)
RECURSIVE NegDigits(_)
NegDigits(n) ==
    LET r == n % 10
        d == (10 - r) % 10
        q == IF r = 0 THEN n \div 10 ELSE (n \div 10) + 1
    IN IF q = 0 THEN <<Digits[d + 1]>> ELSE Append(NegDigits(q), Digits[d + 1])

(* fmt.Sprintf("%d", n) *)
FormatInt(n) == IF n < 0 THEN <<"-">> \o NegDigits(n) ELSE NegDigits(0 - n)

(* What strconv.Quote writes for one byte below RuneSelf: the quote and    *)
(* the backslash escaped, a printable byte as it is, a control byte as its *)
(* letter escape or as \x and two hexadecimal digits                       *)
EscapeByte(code) ==
    CASE code \in {34, 92} -> <<BackSlash, ByteOf(code)>>
      [] code \in 32 .. 126 \ {34, 92} -> <<ByteOf(code)>>
      [] code = 7  -> <<BackSlash, "a">>
      [] code = 8  -> <<BackSlash, "b">>
      [] code = 12 -> <<BackSlash, "f">>
      [] code = 10 -> <<BackSlash, "n">>
      [] code = 13 -> <<BackSlash, "r">>
      [] code = 9  -> <<BackSlash, "t">>
      [] code = 11 -> <<BackSlash, "v">>
      [] OTHER -> <<BackSlash, "x", LowerHex[(code \div 16) + 1],
                    LowerHex[(code % 16) + 1]>>

(* strconv.IsPrint: a rune is printable when it is a letter, mark, number,  *)
(* punctuation or symbol, or the ASCII space.  Up to U+00FF the function   *)
(* decides without its tables.  Beyond, printable lists the ranges of the  *)
(* code points of these categories and rejected the ranges of the other    *)
(* assigned code points (separators, format controls, surrogates, private  *)
(* use) and of the noncharacters, as of Unicode 15.0, the version of the   *)
(* tables of Go 1.22.  A code point that is assigned to nothing is not     *)
(* printable.                                                              *)
IsPrint(r) ==
    LET printable ==
            << <<256, 887>>, <<890, 895>>, <<900, 906>>, <<908, 908>>,
               <<910, 929>>, <<931, 1327>>, <<1329, 1366>>, <<1369, 1418>>,
               <<1421, 1423>>, <<1425, 1479>>, <<1488, 1514>>,
               <<1519, 1524>>, <<1542, 1563>>, <<1565, 1756>>,
               <<1758, 1805>>, <<1808, 1866>>, <<1869, 1969>>,
               <<1984, 2042>>, <<2045, 2093>>, <<2096, 2110>>,
               <<2112, 2139>>, <<2142, 2142>>, <<2144, 2154>>,
               <<2160, 2190>>, <<2200, 2273>>, <<2275, 2435>>,
               <<2437, 2444>>, <<2447, 2448>>, <<2451, 2472>>,
               <<2474, 2480>>, <<2482, 2482>>, <<2486, 2489>>,
               <<2492, 2500>>, <<2503, 2504>>, <<2507, 2510>>,
               <<2519, 2519>>, <<2524, 2525>>, <<2527, 2531>>,
               <<2534, 2558>>, <<2561, 2563>>, <<2565, 2570>>,
               <<2575, 2576>>, <<2579, 2600>>, <<2602, 2608>>,
               <<2610, 2611>>, <<2613, 2614>>, <<2616, 2617>>,
               <<2620, 2620>>, <<2622, 2626>>, <<2631, 2632>>,
               <<2635, 2637>>, <<2641, 2641>>, <<2649, 2652>>,
               <<2654, 2654>>, <<2662, 2678>>, <<2689, 2691>>,
               <<2693, 2701>>, <<2703, 2705>>, <<2707, 2728>>,
               <<2730, 2736>>, <<2738, 2739>>, <<2741, 2745>>,
               <<2748, 2757>>, <<2759, 2761>>, <<2763, 2765>>,
               <<2768, 2768>>, <<2784, 2787>>, <<2790, 2801>>,
               <<2809, 2815>>, <<2817, 2819>>, <<2821, 2828>>,
               <<2831, 2832>>, <<2835, 2856>>, <<2858, 2864>>,
               <<2866, 2867>>, <<2869, 2873>>, <<2876, 2884>>,
               <<2887, 2888>>, <<2891, 2893>>, <<2901, 2903>>,
               <<2908, 2909>>, <<2911, 2915>>, <<2918, 2935>>,
               <<2946, 2947>>, <<2949, 2954>>, <<2958, 2960>>,
               <<2962, 2965>>, <<2969, 2970>>, <<2972, 2972>>,
               <<2974, 2975>>, <<2979, 2980>>, <<2984, 2986>>,
               <<2990, 3001>>, <<3006, 3010>>, <<3014, 3016>>,
               <<3018, 3021>>, <<3024, 3024>>, <<3031, 3031>>,
               <<3046, 3066>>, <<3072, 3084>>, <<3086, 3088>>,
               <<3090, 3112>>, <<3114, 3129>>, <<3132, 3140>>,
               <<3142, 3144>>, <<3146, 3149>>, <<3157, 3158>>,
               <<3160, 3162>>, <<3165, 3165>>, <<3168, 3171>>,
               <<3174, 3183>>, <<3191, 3212>>, <<3214, 3216>>,
               <<3218, 3240>>, <<3242, 3251>>, <<3253, 3257>>,
               <<3260, 3268>>, <<3270, 3272>>, <<3274, 3277>>,
               <<3285, 3286>>, <<3293, 3294>>, <<3296, 3299>>,
               <<3302, 3311>>, <<3313, 3315>>, <<3328, 3340>>,
               <<3342, 3344>>, <<3346, 3396>>, <<3398, 3400>>,
               <<3402, 3407>>, <<3412, 3427>>, <<3430, 3455>>,
               <<3457, 3459>>, <<3461, 3478>>, <<3482, 3505>>,
               <<3507, 3515>>, <<3517, 3517>>, <<3520, 3526>>,
               <<3530, 3530>>, <<3535, 3540>>, <<3542, 3542>>,
               <<3544, 3551>>, <<3558, 3567>>, <<3570, 3572>>,
               <<3585, 3642>>, <<3647, 3675>>, <<3713, 3714>>,
               <<3716, 3716>>, <<3718, 3722>>, <<3724, 3747>>,
               <<3749, 3749>>, <<3751, 3773>>, <<3776, 3780>>,
               <<3782, 3782>>, <<3784, 3790>>, <<3792, 3801>>,
               <<3804, 3807>>, <<3840, 3911>>, <<3913, 3948>>,
               <<3953, 3991>>, <<3993, 4028>>, <<4030, 4044>>,
               <<4046, 4058>>, <<4096, 4293>>, <<4295, 4295>>,
               <<4301, 4301>>, <<4304, 4680>>, <<4682, 4685>>,
               <<4688, 4694>>, <<4696, 4696>>, <<4698, 4701>>,
               <<4704, 4744>>, <<4746, 4749>>, <<4752, 4784>>,
               <<4786, 4789>>, <<4792, 4798>>, <<4800, 4800>>,
               <<4802, 4805>>, <<4808, 4822>>, <<4824, 4880>>,
               <<4882, 4885>>, <<4888, 4954>>, <<4957, 4988>>,
               <<4992, 5017>>, <<5024, 5109>>, <<5112, 5117>>,
               <<5120, 5759>>, <<5761, 5788>>, <<5792, 5880>>,
               <<5888, 5909>>, <<5919, 5942>>, <<5952, 5971>>,
               <<5984, 5996>>, <<5998, 6000>>, <<6002, 6003>>,
               <<6016, 6109>>, <<6112, 6121>>, <<6128, 6137>>,
               <<6144, 6157>>, <<6159, 6169>>, <<6176, 6264>>,
               <<6272, 6314>>, <<6320, 6389>>, <<6400, 6430>>,
               <<6432, 6443>>, <<6448, 6459>>, <<6464, 6464>>,
               <<6468, 6509>>, <<6512, 6516>>, <<6528, 6571>>,
               <<6576, 6601>>, <<6608, 6618>>, <<6622, 6683>>,
               <<6686, 6750>>, <<6752, 6780>>, <<6783, 6793>>,
               <<6800, 6809>>, <<6816, 6829>>, <<6832, 6862>>,
               <<6912, 6988>>, <<6992, 7038>>, <<7040, 7155>>,
               <<7164, 7223>>, <<7227, 7241>>, <<7245, 7304>>,
               <<7312, 7354>>, <<7357, 7367>>, <<7376, 7418>>,
               <<7424, 7957>>, <<7960, 7965>>, <<7968, 8005>>,
               <<8008, 8013>>, <<8016, 8023>>, <<8025, 8025>>,
               <<8027, 8027>>, <<8029, 8029>>, <<8031, 8061>>,
               <<8064, 8116>>, <<8118, 8132>>, <<8134, 8147>>,
               <<8150, 8155>>, <<8157, 8175>>, <<8178, 8180>>,
               <<8182, 8190>>, <<8208, 8231>>, <<8240, 8286>>,
               <<8304, 8305>>, <<8308, 8334>>, <<8336, 8348>>,
               <<8352, 8384>>, <<8400, 8432>>, <<8448, 8587>>,
               <<8592, 9254>>, <<9280, 9290>>, <<9312, 11123>>,
               <<11126, 11157>>, <<11159, 11507>>, <<11513, 11557>>,
               <<11559, 11559>>, <<11565, 11565>>, <<11568, 11623>>,
               <<11631, 11632>>, <<11647, 11670>>, <<11680, 11686>>,
               <<11688, 11694>>, <<11696, 11702>>, <<11704, 11710>>,
               <<11712, 11718>>, <<11720, 11726>>, <<11728, 11734>>,
               <<11736, 11742>>, <<11744, 11869>>, <<11904, 11929>>,
               <<11931, 12019>>, <<12032, 12245>>, <<12272, 12283>>,
               <<12289, 12351>>, <<12353, 12438>>, <<12441, 12543>>,
               <<12549, 12591>>, <<12593, 12686>>, <<12688, 12771>>,
               <<12784, 12830>>, <<12832, 42124>>, <<42128, 42182>>,
               <<42192, 42539>>, <<42560, 42743>>, <<42752, 42954>>,
               <<42960, 42961>>, <<42963, 42963>>, <<42965, 42969>>,
               <<42994, 43052>>, <<43056, 43065>>, <<43072, 43127>>,
               <<43136, 43205>>, <<43214, 43225>>, <<43232, 43347>>,
               <<43359, 43388>>, <<43392, 43469>>, <<43471, 43481>>,
               <<43486, 43518>>, <<43520, 43574>>, <<43584, 43597>>,
               <<43600, 43609>>, <<43612, 43714>>, <<43739, 43766>>,
               <<43777, 43782>>, <<43785, 43790>>, <<43793, 43798>>,
               <<43808, 43814>>, <<43816, 43822>>, <<43824, 43883>>,
               <<43888, 44013>>, <<44016, 44025>>, <<44032, 55203>>,
               <<55216, 55238>>, <<55243, 55291>>, <<63744, 64109>>,
               <<64112, 64217>>, <<64256, 64262>>, <<64275, 64279>>,
               <<64285, 64310>>, <<64312, 64316>>, <<64318, 64318>>,
               <<64320, 64321>>, <<64323, 64324>>, <<64326, 64450>>,
               <<64467, 64911>>, <<64914, 64967>>, <<64975, 64975>>,
               <<65008, 65049>>, <<65056, 65106>>, <<65108, 65126>>,
               <<65128, 65131>>, <<65136, 65140>>, <<65142, 65276>>,
               <<65281, 65470>>, <<65474, 65479>>, <<65482, 65487>>,
               <<65490, 65495>>, <<65498, 65500>>, <<65504, 65510>>,
               <<65512, 65518>>, <<65532, 65533>>, <<65536, 65547>>,
               <<65549, 65574>>, <<65576, 65594>>, <<65596, 65597>>,
               <<65599, 65613>>, <<65616, 65629>>, <<65664, 65786>>,
               <<65792, 65794>>, <<65799, 65843>>, <<65847, 65934>>,
               <<65936, 65948>>, <<65952, 65952>>, <<66000, 66045>>,
               <<66176, 66204>>, <<66208, 66256>>, <<66272, 66299>>,
               <<66304, 66339>>, <<66349, 66378>>, <<66384, 66426>>,
               <<66432, 66461>>, <<66463, 66499>>, <<66504, 66517>>,
               <<66560, 66717>>, <<66720, 66729>>, <<66736, 66771>>,
               <<66776, 66811>>, <<66816, 66855>>, <<66864, 66915>>,
               <<66927, 66938>>, <<66940, 66954>>, <<66956, 66962>>,
               <<66964, 66965>>, <<66967, 66977>>, <<66979, 66993>>,
               <<66995, 67001>>, <<67003, 67004>>, <<67072, 67382>>,
               <<67392, 67413>>, <<67424, 67431>>, <<67456, 67461>>,
               <<67463, 67504>>, <<67506, 67514>>, <<67584, 67589>>,
               <<67592, 67592>>, <<67594, 67637>>, <<67639, 67640>>,
               <<67644, 67644>>, <<67647, 67669>>, <<67671, 67742>>,
               <<67751, 67759>>, <<67808, 67826>>, <<67828, 67829>>,
               <<67835, 67867>>, <<67871, 67897>>, <<67903, 67903>>,
               <<67968, 68023>>, <<68028, 68047>>, <<68050, 68099>>,
               <<68101, 68102>>, <<68108, 68115>>, <<68117, 68119>>,
               <<68121, 68149>>, <<68152, 68154>>, <<68159, 68168>>,
               <<68176, 68184>>, <<68192, 68255>>, <<68288, 68326>>,
               <<68331, 68342>>, <<68352, 68405>>, <<68409, 68437>>,
               <<68440, 68466>>, <<68472, 68497>>, <<68505, 68508>>,
               <<68521, 68527>>, <<68608, 68680>>, <<68736, 68786>>,
               <<68800, 68850>>, <<68858, 68903>>, <<68912, 68921>>,
               <<69216, 69246>>, <<69248, 69289>>, <<69291, 69293>>,
               <<69296, 69297>>, <<69373, 69415>>, <<69424, 69465>>,
               <<69488, 69513>>, <<69552, 69579>>, <<69600, 69622>>,
               <<69632, 69709>>, <<69714, 69749>>, <<69759, 69820>>,
               <<69822, 69826>>, <<69840, 69864>>, <<69872, 69881>>,
               <<69888, 69940>>, <<69942, 69959>>, <<69968, 70006>>,
               <<70016, 70111>>, <<70113, 70132>>, <<70144, 70161>>,
               <<70163, 70209>>, <<70272, 70278>>, <<70280, 70280>>,
               <<70282, 70285>>, <<70287, 70301>>, <<70303, 70313>>,
               <<70320, 70378>>, <<70384, 70393>>, <<70400, 70403>>,
               <<70405, 70412>>, <<70415, 70416>>, <<70419, 70440>>,
               <<70442, 70448>>, <<70450, 70451>>, <<70453, 70457>>,
               <<70459, 70468>>, <<70471, 70472>>, <<70475, 70477>>,
               <<70480, 70480>>, <<70487, 70487>>, <<70493, 70499>>,
               <<70502, 70508>>, <<70512, 70516>>, <<70656, 70747>>,
               <<70749, 70753>>, <<70784, 70855>>, <<70864, 70873>>,
               <<71040, 71093>>, <<71096, 71133>>, <<71168, 71236>>,
               <<71248, 71257>>, <<71264, 71276>>, <<71296, 71353>>,
               <<71360, 71369>>, <<71424, 71450>>, <<71453, 71467>>,
               <<71472, 71494>>, <<71680, 71739>>, <<71840, 71922>>,
               <<71935, 71942>>, <<71945, 71945>>, <<71948, 71955>>,
               <<71957, 71958>>, <<71960, 71989>>, <<71991, 71992>>,
               <<71995, 72006>>, <<72016, 72025>>, <<72096, 72103>>,
               <<72106, 72151>>, <<72154, 72164>>, <<72192, 72263>>,
               <<72272, 72354>>, <<72368, 72440>>, <<72448, 72457>>,
               <<72704, 72712>>, <<72714, 72758>>, <<72760, 72773>>,
               <<72784, 72812>>, <<72816, 72847>>, <<72850, 72871>>,
               <<72873, 72886>>, <<72960, 72966>>, <<72968, 72969>>,
               <<72971, 73014>>, <<73018, 73018>>, <<73020, 73021>>,
               <<73023, 73031>>, <<73040, 73049>>, <<73056, 73061>>,
               <<73063, 73064>>, <<73066, 73102>>, <<73104, 73105>>,
               <<73107, 73112>>, <<73120, 73129>>, <<73440, 73464>>,
               <<73472, 73488>>, <<73490, 73530>>, <<73534, 73561>>,
               <<73648, 73648>>, <<73664, 73713>>, <<73727, 74649>>,
               <<74752, 74862>>, <<74864, 74868>>, <<74880, 75075>>,
               <<77712, 77810>>, <<77824, 78895>>, <<78912, 78933>>,
               <<82944, 83526>>, <<92160, 92728>>, <<92736, 92766>>,
               <<92768, 92777>>, <<92782, 92862>>, <<92864, 92873>>,
               <<92880, 92909>>, <<92912, 92917>>, <<92928, 92997>>,
               <<93008, 93017>>, <<93019, 93025>>, <<93027, 93047>>,
               <<93053, 93071>>, <<93760, 93850>>, <<93952, 94026>>,
               <<94031, 94087>>, <<94095, 94111>>, <<94176, 94180>>,
               <<94192, 94193>>, <<94208, 100343>>, <<100352, 101589>>,
               <<101632, 101640>>, <<110576, 110579>>, <<110581, 110587>>,
               <<110589, 110590>>, <<110592, 110882>>, <<110898, 110898>>,
               <<110928, 110930>>, <<110933, 110933>>, <<110948, 110951>>,
               <<110960, 111355>>, <<113664, 113770>>, <<113776, 113788>>,
               <<113792, 113800>>, <<113808, 113817>>, <<113820, 113823>>,
               <<118528, 118573>>, <<118576, 118598>>, <<118608, 118723>>,
               <<118784, 119029>>, <<119040, 119078>>, <<119081, 119154>>,
               <<119163, 119274>>, <<119296, 119365>>, <<119488, 119507>>,
               <<119520, 119539>>, <<119552, 119638>>, <<119648, 119672>>,
               <<119808, 119892>>, <<119894, 119964>>, <<119966, 119967>>,
               <<119970, 119970>>, <<119973, 119974>>, <<119977, 119980>>,
               <<119982, 119993>>, <<119995, 119995>>, <<119997, 120003>>,
               <<120005, 120069>>, <<120071, 120074>>, <<120077, 120084>>,
               <<120086, 120092>>, <<120094, 120121>>, <<120123, 120126>>,
               <<120128, 120132>>, <<120134, 120134>>, <<120138, 120144>>,
               <<120146, 120485>>, <<120488, 120779>>, <<120782, 121483>>,
               <<121499, 121503>>, <<121505, 121519>>, <<122624, 122654>>,
               <<122661, 122666>>, <<122880, 122886>>, <<122888, 122904>>,
               <<122907, 122913>>, <<122915, 122916>>, <<122918, 122922>>,
               <<122928, 122989>>, <<123023, 123023>>, <<123136, 123180>>,
               <<123184, 123197>>, <<123200, 123209>>, <<123214, 123215>>,
               <<123536, 123566>>, <<123584, 123641>>, <<123647, 123647>>,
               <<124112, 124153>>, <<124896, 124902>>, <<124904, 124907>>,
               <<124909, 124910>>, <<124912, 124926>>, <<124928, 125124>>,
               <<125127, 125142>>, <<125184, 125259>>, <<125264, 125273>>,
               <<125278, 125279>>, <<126065, 126132>>, <<126209, 126269>>,
               <<126464, 126467>>, <<126469, 126495>>, <<126497, 126498>>,
               <<126500, 126500>>, <<126503, 126503>>, <<126505, 126514>>,
               <<126516, 126519>>, <<126521, 126521>>, <<126523, 126523>>,
               <<126530, 126530>>, <<126535, 126535>>, <<126537, 126537>>,
               <<126539, 126539>>, <<126541, 126543>>, <<126545, 126546>>,
               <<126548, 126548>>, <<126551, 126551>>, <<126553, 126553>>,
               <<126555, 126555>>, <<126557, 126557>>, <<126559, 126559>>,
               <<126561, 126562>>, <<126564, 126564>>, <<126567, 126570>>,
               <<126572, 126578>>, <<126580, 126583>>, <<126585, 126588>>,
               <<126590, 126590>>, <<126592, 126601>>, <<126603, 126619>>,
               <<126625, 126627>>, <<126629, 126633>>, <<126635, 126651>>,
               <<126704, 126705>>, <<126976, 127019>>, <<127024, 127123>>,
               <<127136, 127150>>, <<127153, 127167>>, <<127169, 127183>>,
               <<127185, 127221>>, <<127232, 127405>>, <<127462, 127490>>,
               <<127504, 127547>>, <<127552, 127560>>, <<127568, 127569>>,
               <<127584, 127589>>, <<127744, 128727>>, <<128732, 128748>>,
               <<128752, 128764>>, <<128768, 128886>>, <<128891, 128985>>,
               <<128992, 129003>>, <<129008, 129008>>, <<129024, 129035>>,
               <<129040, 129095>>, <<129104, 129113>>, <<129120, 129159>>,
               <<129168, 129197>>, <<129200, 129201>>, <<129280, 129619>>,
               <<129632, 129645>>, <<129648, 129660>>, <<129664, 129672>>,
               <<129680, 129725>>, <<129727, 129733>>, <<129742, 129755>>,
               <<129760, 129768>>, <<129776, 129784>>, <<129792, 129938>>,
               <<129940, 129994>>, <<130032, 130041>>, <<131072, 173791>>,
               <<173824, 177977>>, <<177984, 178205>>, <<178208, 183969>>,
               <<183984, 191456>>, <<194560, 195101>>, <<196608, 201546>>,
               <<201552, 205743>>, <<917760, 917999>> >>
        rejected ==
            << <<1536, 1541>>, <<1564, 1564>>, <<1757, 1757>>,
               <<1807, 1807>>, <<2192, 2193>>, <<2274, 2274>>,
               <<5760, 5760>>, <<6158, 6158>>, <<8192, 8207>>,
               <<8232, 8239>>, <<8287, 8292>>, <<8294, 8303>>,
               <<12288, 12288>>, <<55296, 63743>>, <<64976, 65007>>,
               <<65279, 65279>>, <<65529, 65531>>, <<65534, 65535>>,
               <<69821, 69821>>, <<69837, 69837>>, <<78896, 78911>>,
               <<113824, 113827>>, <<119155, 119162>>, <<131070, 131071>>,
               <<196606, 196607>>, <<262142, 262143>>, <<327678, 327679>>,
               <<393214, 393215>>, <<458750, 458751>>, <<524286, 524287>>,
               <<589822, 589823>>, <<655358, 655359>>, <<720894, 720895>>,
               <<786430, 786431>>, <<851966, 851967>>, <<917502, 917503>>,
               <<917505, 917505>>, <<917536, 917631>>, <<983038, 1114111>> >>
    IN CASE r <= 255 -> r \in 32 .. 126 \/ (r \in 161 .. 255 /\ r # 173)
         [] \E i \in DOMAIN printable :
                r \in printable[i][1] .. printable[i][2] -> TRUE
         [] \E i \in DOMAIN rejected :
                r \in rejected[i][1] .. rejected[i][2] -> FALSE
         [] OTHER -> FALSE

(* strconv.Quote: double quotes around the escaped string.  A byte that    *)
(* starts no UTF-8 encoding is written as \x and its code; the encoding of *)
(* a rune beyond ASCII is kept when the rune is printable, and the rune is *)
(* written as \u and four hexadecimal digits otherwise (\U and eight      *)
(* beyond U+FFFF).                                                         *)
RECURSIVE EscapeBytes(_)
EscapeBytes(s) ==
    IF s = <<>>
    THEN <<>>
    ELSE (IF DecodeRune(s).size = 1
          THEN EscapeByte(CodeOf(s[1]))
          ELSE IF IsPrint(DecodeRune(s).r)
          THEN SubSeq(s, 1, DecodeRune(s).size)
          ELSE IF DecodeRune(s).r < 65536
          THEN <<BackSlash, "u">>
                   \o [i \in 1 .. 4 |->
                          LowerHex[((DecodeRune(s).r \div (16 ^ (4 - i))) % 16) + 1]]
          ELSE <<BackSlash, "U", "0", "0">>
                   \o [i \in 1 .. 6 |->
                          LowerHex[((DecodeRune(s).r \div (16 ^ (6 - i))) % 16) + 1]])
             \o EscapeBytes(SubSeq(s, DecodeRune(s).size + 1, Len(s)))

Quote(s) == <<Quote2>> \o EscapeBytes(s) \o <<Quote2>>

(* A plausible slip: the unit is written without the separating space *)
MarshalJSONWithoutSpace(r) == Quote(FormatInt(r) \o <<"m", "i", "n", "s">>)

(* MarshalJSON: the quoted string "<r> mins" *)
MarshalJSON(r) == Quote(FormatInt(r) \o <<" ", "m", "i", "n", "s">>)

(* The outcomes of strconv.UnquoteChar: an error, or the value read, the   *)
(* multibyte flag and the tail                                             *)
UnquoteCharError == [ok |-> FALSE, value |-> 0, multibyte |-> FALSE, rest |-> <<>>]
UnquoteCharValue(value, multibyte, rest) ==
    [ok |-> TRUE, value |-> value, multibyte |-> multibyte, rest |-> rest]

(* The value of the hexadecimal digits ds read after acc, -1 when one of   *)
(* them is no hexadecimal digit.  The value is a rune, 32 bits wide: what  *)
(* eight digits give beyond MaxRune, negative after the wrap or not, is    *)
(* never a valid rune, and stands here as one value beyond MaxRune.        *)
RECURSIVE HexValue(_, _)
HexValue(ds, acc) ==
    IF ds = <<>>
    THEN acc
    ELSE IF unhex(Head(ds)) < 0
    THEN -1
    ELSE HexValue(Tail(ds),
                  IF acc > MaxRune THEN acc ELSE acc * 16 + unhex(Head(ds)))

(* The escapes \x, \u and \U, c the letter, v the value of the digits:    *)
(* \x names a byte, \u and \U a valid rune                                *)
HexEscape(c, v, rest) ==
    IF v < 0
    THEN UnquoteCharError
    ELSE IF c = "x"
    THEN UnquoteCharValue(v, FALSE, rest)
    ELSE IF ~ValidRune(v)
    THEN UnquoteCharError
    ELSE UnquoteCharValue(v, TRUE, rest)

IsOctal(c) == c \in DigitSet /\ DigitValue(c) <= 7

(* The escape \c, s what follows the letter c *)
UnquoteEscape(c, s, quote) ==
    CASE c = "a" -> UnquoteCharValue(7, FALSE, s)
      [] c = "b" -> UnquoteCharValue(8, FALSE, s)
      [] c = "f" -> UnquoteCharValue(12, FALSE, s)
      [] c = "n" -> UnquoteCharValue(10, FALSE, s)
      [] c = "r" -> UnquoteCharValue(13, FALSE, s)
      [] c = "t" -> UnquoteCharValue(9, FALSE, s)
      [] c = "v" -> UnquoteCharValue(11, FALSE, s)
      [] c = "x" ->
            IF Len(s) < 2 THEN UnquoteCharError
            ELSE HexEscape(c, HexValue(SubSeq(s, 1, 2), 0), SubSeq(s, 3, Len(s)))
      [] c = "u" ->
            IF Len(s) < 4 THEN UnquoteCharError
            ELSE HexEscape(c, HexValue(SubSeq(s, 1, 4), 0), SubSeq(s, 5, Len(s)))
      [] c = "U" ->
            IF Len(s) < 8 THEN UnquoteCharError
            ELSE HexEscape(c, HexValue(SubSeq(s, 1, 8), 0), SubSeq(s, 9, Len(s)))
      [] IsOctal(c) ->
            IF Len(s) < 2 THEN UnquoteCharError
            ELSE IF ~IsOctal(s[1]) \/ ~IsOctal(s[2]) THEN UnquoteCharError
            ELSE IF (DigitValue(c) * 8 + DigitValue(s[1])) * 8
                        + DigitValue(s[2]) > 255
            THEN UnquoteCharError
            ELSE UnquoteCharValue((DigitValue(c) * 8 + DigitValue(s[1])) * 8
                                      + DigitValue(s[2]),
                                  FALSE, SubSeq(s, 3, Len(s)))
      [] c = BackSlash -> UnquoteCharValue(92, FALSE, s)
      [] c \in {Quote1, Quote2} ->
            IF c # quote THEN UnquoteCharError
            ELSE UnquoteCharValue(CodeOf(c), FALSE, s)
      [] OTHER -> UnquoteCharError

(* strconv.UnquoteChar: the first character or byte of the string s of a   *)
(* literal quoted by quote, escaped or not, and what follows it            *)
UnquoteChar(s, quote) ==
    IF s = <<>>
    THEN UnquoteCharError
    ELSE IF s[1] = quote /\ quote \in {Quote1, Quote2}
    THEN UnquoteCharError
    ELSE IF CodeOf(s[1]) >= RuneSelf
    THEN UnquoteCharValue(DecodeRune(s).r, TRUE,
                          SubSeq(s, DecodeRune(s).size + 1, Len(s)))
    ELSE IF s[1] # BackSlash
    THEN UnquoteCharValue(CodeOf(s[1]), FALSE, Tail(s))
    ELSE IF Len(s) <= 1
    THEN UnquoteCharError
    ELSE UnquoteEscape(s[2], SubSeq(s, 3, Len(s)), quote)

(* What Unquote appends for a character UnquoteChar returned: the byte, or *)
(* the encoding of the rune                                                *)
AppendChar(u) ==
    IF u.value < RuneSelf \/ ~u.multibyte
    THEN <<ByteOf(u.value)>>
    ELSE EncodeRune(u.value)

(* The loop of strconv.Unquote over a quoted string with escape sequences: *)
(* s is what follows the opening quote, acc the bytes unquoted so far      *)
RECURSIVE UnquoteLoop(_, _, _)
UnquoteStep(u, s, quote, acc) ==
    IF s[1] = NewLine \/ ~u.ok
    THEN [ok |-> FALSE, str |-> <<>>]
    ELSE IF quote = Quote1
    THEN (IF u.rest = <<Quote1>>
          THEN [ok |-> TRUE, str |-> acc \o AppendChar(u)]
          ELSE [ok |-> FALSE, str |-> <<>>])
    ELSE UnquoteLoop(u.rest, quote, acc \o AppendChar(u))
UnquoteLoop(s, quote, acc) ==
    IF s = <<>>
    THEN [ok |-> FALSE, str |-> <<>>]
    ELSE IF s[1] = quote
    THEN (IF Len(s) = 1 THEN [ok |-> TRUE, str |-> acc]
          ELSE [ok |-> FALSE, str |-> <<>>])
    ELSE UnquoteStep(UnquoteChar(s, quote), s, quote, acc)

(* The bytes of s without the carriage returns *)
RECURSIVE DropCarriageReturns(_)
DropCarriageReturns(s) ==
    IF s = <<>>
    THEN <<>>
    ELSE (IF Head(s) = CarriageReturn THEN <<>> ELSE <<Head(s)>>)
             \o DropCarriageReturns(Tail(s))

(* The quoted strings without escape sequences that Unquote returns        *)
(* without its loop: valid UTF-8 between double quotes, one rune between   *)
(* single quotes                                                           *)
UnquoteFast(quote, body) ==
    /\ ~Contains(body, BackSlash)
    /\ ~Contains(body, NewLine)
    /\ IF quote = Quote2
       THEN ValidString(body)
       ELSE /\ DecodeRune(body).size = Len(body)
            /\ (DecodeRune(body).r # RuneError \/ Len(body) # 1)

(* Unquote for a literal whose closing quote was found: body lies between  *)
(* the quotes, rem after the closing one                                   *)
UnquoteLiteral(s, quote, body, rem) ==
    IF quote = BackQuote
    THEN (IF rem = <<>>
          THEN [ok |-> TRUE, str |-> DropCarriageReturns(body)]
          ELSE [ok |-> FALSE, str |-> <<>>])
    ELSE IF quote \notin {Quote1, Quote2}
    THEN [ok |-> FALSE, str |-> <<>>]
    ELSE IF UnquoteFast(quote, body)
    THEN (IF rem = <<>> THEN [ok |-> TRUE, str |-> body]
          ELSE [ok |-> FALSE, str |-> <<>>])
    ELSE UnquoteLoop(Tail(s), quote, <<>>)

(* strconv.Unquote: a double-quoted, single-quoted or back-quoted Go        *)
(* literal with nothing after its closing quote, which is the first byte   *)
(* after the opening quote that is equal to it                             *)
Unquote(s) ==
    IF Len(s) < 2
    THEN [ok |-> FALSE, str |-> <<>>]
    ELSE IF IndexByte(Tail(s), s[1]) = 0
    THEN [ok |-> FALSE, str |-> <<>>]
    ELSE UnquoteLiteral(s, s[1],
                        SubSeq(s, 2, IndexByte(Tail(s), s[1])),
                        SubSeq(s, IndexByte(Tail(s), s[1]) + 2, Len(s)))

(* strings.Split(s, sep) for a one-byte separator *)
RECURSIVE Split(_, _)
Split(s, sep) ==
    LET i == IndexByte(s, sep)
    IN IF i = 0
       THEN <<s>>
       ELSE <<SubSeq(s, 1, i - 1)>> \o Split(SubSeq(s, i + 1, Len(s)), sep)

(* The size of Go's int on the platform the server is built for *)
IntSize == 64

RECURSIVE StripZeros(_)
StripZeros(ds) ==
    IF Len(ds) > 1 /\ Head(ds) = "0" THEN StripZeros(Tail(ds)) ELSE ds

(* a > b for two sequences of decimal digits without leading zeros *)
DigitsGreater(a, b) ==
    \/ Len(a) > Len(b)
    \/ /\ Len(a) = Len(b)
       /\ \E i \in 1 .. Len(a) :
             /\ DigitValue(a[i]) > DigitValue(b[i])
             /\ \A j \in 1 .. (i - 1) : a[j] = b[j]

(* The largest int64 and the magnitude of the smallest *)
MaxInt64Digits ==
    <<"9", "2", "2", "3", "3", "7", "2", "0", "3", "6", "8", "5", "4",
      "7", "7", "5", "8", "0", "7">>
MinInt64Digits == SubSeq(MaxInt64Digits, 1, 18) \o <<"8">>

(* The largest int32 *)
MaxInt32Digits == <<"2", "1", "4", "7", "4", "8", "3", "6", "4", "7">>

(* The largest int and the magnitude of the smallest *)
MaxIntDigits == IF IntSize = 64 THEN MaxInt64Digits ELSE MaxInt32Digits
MinIntDigits == SubSeq(MaxIntDigits, 1, Len(MaxIntDigits) - 1) \o <<"8">>

(* The number syntax strconv.Atoi and strconv.ParseInt (base 10) share:    *)
(* an optional sign and decimal digits, the value within [-min, max].      *)
(* The number is given by its sign and the decimal digits of its           *)
(* magnitude, since it may not fit 32 bits.                                *)
ParseDecimal(s, max, min) ==
    LET bad    == [ok |-> FALSE, neg |-> FALSE, mag |-> <<"0">>]
        signed == s # <<>> /\ s[1] \in {"-", "+"}
        neg    == s # <<>> /\ s[1] = "-"
        body   == IF signed THEN Tail(s) ELSE s
        mag    == StripZeros(body)
    IN IF body = <<>> THEN bad
       ELSE IF \E i \in 1 .. Len(body) : body[i] \notin DigitSet THEN bad
       ELSE IF DigitsGreater(mag, IF neg THEN min ELSE max) THEN bad
       ELSE [ok |-> TRUE, neg |-> neg, mag |-> mag]

(* strconv.Atoi: the range is that of int *)
Atoi(s) == ParseDecimal(s, MaxIntDigits, MinIntDigits)

(* The low 32 bits of a magnitude, as two 16-bit halves *)
RECURSIVE Low32(_, _, _)
Low32(ds, hi, lo) ==
    IF ds = <<>>
    THEN [hi |-> hi, lo |-> lo]
    ELSE LET l == lo * 10 + DigitValue(Head(ds))
             h == hi * 10 + (l \div 65536)
         IN Low32(Tail(ds), h % 65536, l % 65536)

(* The conversion Runtime(value) of an int to int32: the low 32 bits of    *)
(* its two's complement, read as a signed number                           *)
ToInt32(a) ==
    LET u  == Low32(a.mag, 0, 0)
        lo == IF a.neg THEN (65536 - u.lo) % 65536 ELSE u.lo
        hi == IF a.neg
              THEN (65536 - u.hi - (IF u.lo # 0 THEN 1 ELSE 0)) % 65536
              ELSE u.hi
    IN IF hi >= 32768 THEN (hi - 65536) * 65536 + lo ELSE hi * 65536 + lo

(* A plausible slip: the sign of the parsed number is dropped *)
UnmarshalJSONDroppingSign(r, jsonValue) ==
    LET u     == Unquote(jsonValue)
        parts == Split(u.str, " ")
        a     == Atoi(parts[1])
    IN IF ~u.ok THEN [r |-> r, err |-> ErrInvalidRuntimeFormat]
       ELSE IF Len(parts) # 2 \/ parts[2] # <<"m", "i", "n", "s">>
       THEN [r |-> r, err |-> ErrInvalidRuntimeFormat]
       ELSE IF ~a.ok THEN [r |-> r, err |-> ErrInvalidRuntimeFormat]
       ELSE [r |-> ToInt32([a EXCEPT !.neg = FALSE]), err |-> Nil]

(* UnmarshalJSON: unquote, split on spaces into "<runtime>" and "mins",    *)
(* parse the number and store it in the receiver                           *)
UnmarshalJSON(r, jsonValue) ==
    LET u     == Unquote(jsonValue)
        parts == Split(u.str, " ")
        a     == Atoi(parts[1])
    IN IF ~u.ok THEN [r |-> r, err |-> ErrInvalidRuntimeFormat]
       ELSE IF Len(parts) # 2 \/ parts[2] # <<"m", "i", "n", "s">>
       THEN [r |-> r, err |-> ErrInvalidRuntimeFormat]
       ELSE IF ~a.ok THEN [r |-> r, err |-> ErrInvalidRuntimeFormat]
       ELSE [r |-> ToInt32(a), err |-> Nil]

----------------------------------------------------------------------------
(* Request helpers of the API *)

(* The value of a parsed number that fits the integers of the model *)
RECURSIVE MagValue(_, _)
MagValue(ds, acc) ==
    IF ds = <<>> THEN acc ELSE MagValue(Tail(ds), acc * 10 + DigitValue(Head(ds)))
IntValue(a) == IF a.neg THEN 0 - MagValue(a.mag, 0) ELSE MagValue(a.mag, 0)

(* A plausible slip: readIDParam lets a parsed id below 1 through *)
readIDParamWithoutRangeCheck(stringID) ==
    LET a == ParseDecimal(stringID, MaxInt64Digits, MinInt64Digits)
    IN IF ~a.ok
       THEN [id |-> 0, err |-> "invalid id parameter"]
       ELSE [id |-> IntValue(a), err |-> Nil]

(* readIDParam: strconv.ParseInt(stringID, 10, 64), and the id must be >= 1 *)
readIDParam(stringID) ==
    LET a == ParseDecimal(stringID, MaxInt64Digits, MinInt64Digits)
    IN IF ~a.ok \/ a.neg \/ a.mag = <<"0">>
       THEN [id |-> 0, err |-> "invalid id parameter"]
       ELSE [id |-> IntValue(a), err |-> Nil]

(* ValidateMovie *)

(* time.Now().Year() at the time of validation *)
CurrentYear == 2026

(* The Check calls of ValidateMovie, in the order the code makes them.     *)
(* The title is the sequence of its bytes: len(movie.Title) is Len of it.  *)
MovieChecks(m) ==
    << [ok |-> m.Title # <<>>, key |-> "title", message |-> "must be provided"],
       [ok |-> Len(m.Title) <= 500, key |-> "title",
        message |-> "must not be more than 500 bytes long"],
       [ok |-> m.Year # 0, key |-> "year", message |-> "must be provided"],
       [ok |-> m.Year >= 1888, key |-> "year",
        message |-> "must be greater than 1888"],
       [ok |-> m.Year <= CurrentYear, key |-> "year",
        message |-> "must not be in the future"],
       [ok |-> m.Runtime # 0, key |-> "runtime",
        message |-> "must be provided"],
       [ok |-> m.Runtime > 0, key |-> "runtime",
        message |-> "must be a positive integer"],
       [ok |-> ~m.Genres.isNil, key |-> "genres",
        message |-> "must be provided"],
       [ok |-> ~m.Genres.isNil, key |-> "genres",
        message |-> "must contain atleast 1 genre"],
       [ok |-> ~m.Genres.isNil, key |-> "genres",
        message |-> "must not contain more than 5 genres"],
       [ok |-> Unique(m.Genres), key |-> "genres",
        message |-> "must not contain duplicate values"] >>

RECURSIVE RunChecks(_, _)
RunChecks(val, cs) ==
    IF cs = <<>>
    THEN val
    ELSE RunChecks(Check(val, Head(cs).ok, Head(cs).key, Head(cs).message),
                   Tail(cs))

(* utf8.RuneCountInString: the number of runes of a string, a byte that    *)
(* starts no encoding counting as one.  A byte is not counted when it lies *)
(* inside the encoding that one of the three bytes before it starts.       *)
RuneCountInString(s) ==
    Cardinality({i \in 1 .. Len(s) :
                   ~\E j \in (i - 3) .. (i - 1) :
                       /\ j >= 1
                       /\ DecodeRune(SubSeq(s, j, Len(s))).size > i - j})

(* A plausible slip: the length of the title counted in characters *)
ValidateMovieCountingRunes(val, m) ==
    RunChecks(val, [MovieChecks(m) EXCEPT
                       ![2].ok = RuneCountInString(m.Title) <= 500])

ValidateMovie(val, m) == RunChecks(val, MovieChecks(m))

----------------------------------------------------------------------------
(* JSON values of a request body.  A number is given by the bytes of its   *)
(* literal (JNumber; JNum for an int32).  A string is given by its text,   *)
(* except                                                                  *)
(* that a string meant for the runtime field is given by the bytes of its  *)
(* literal (JRaw); JSyntax is text that is not JSON, JTruncated a value    *)
(* the body ends in the middle of, JOverLimit a value, or white space      *)
(* before one, in which the body reaches the byte limit of readJSON with   *)
(* more bytes to come.  The decoder hands the bytes of the value of the    *)
(* runtime field to Runtime.UnmarshalJSON whatever its JSON type, null     *)
(* included.  The key of an object member is the sequence of its bytes.    *)
JValue(t, str, n, a, raw, m) ==
    [t |-> t, s |-> str, n |-> n, a |-> a, raw |-> raw, m |-> m]
JStr(str) == JValue("string", str, 0, <<>>, <<>>, <<>>)
JNumber(raw) == JValue("number", <<>>, 0, <<>>, raw, <<>>)
JNum(n) == JNumber(FormatInt(n))
JArr(a) == JValue("array", <<>>, 0, a, <<>>, <<>>)
JRaw(raw) == JValue("string", <<>>, 0, <<>>, raw, <<>>)
JObj(m) == JValue("object", <<>>, 0, <<>>, <<>>, m)
JNull == JValue("null", <<>>, 0, <<>>, <<"n", "u", "l", "l">>, <<>>)
JSyntax == JValue("syntax", <<>>, 0, <<>>, <<>>, <<>>)
JTruncated == JValue("truncated", <<>>, 0, <<>>, <<>>, <<>>)
JOverLimit == JValue("overlimit", <<>>, 0, <<>>, <<>>, <<>>)

(* The zero value of the input struct of the create and update handlers *)
ZeroInput == [Title |-> <<>>, Year |-> 0, Runtime |-> 0, Genres |-> NilSlice]

(* The JSON names of the fields of the input struct, in its order *)
TitleKey == <<"t", "i", "t", "l", "e">>
YearKey == <<"y", "e", "a", "r">>
RuntimeKey == <<"r", "u", "n", "t", "i", "m", "e">>
GenresKey == <<"g", "e", "n", "r", "e", "s">>
FieldNames == <<TitleKey, YearKey, RuntimeKey, GenresKey>>

(* encoding/json foldRune: the smallest rune of the orbit of r under       *)
(* unicode.SimpleFold.  Each row of orbits is a run of runes lo, lo + step, *)
(* ... up to hi, whose smallest fold lies delta below; a rune in no run is  *)
(* the smallest of its orbit.  The orbits are those of Unicode 14.0 and     *)
(* 15.0, which agree.                                                      *)
foldRune(r) ==
    LET orbits ==
            << <<97, 122, 1, 32>>, <<224, 246, 1, 32>>, <<248, 254, 1, 32>>,
               <<257, 303, 2, 1>>, <<307, 311, 2, 1>>, <<314, 328, 2, 1>>,
               <<331, 375, 2, 1>>, <<376, 376, 1, 121>>, <<378, 382, 2, 1>>,
               <<383, 383, 1, 300>>, <<387, 389, 2, 1>>, <<392, 392, 1, 1>>,
               <<396, 396, 1, 1>>, <<402, 402, 1, 1>>, <<409, 409, 1, 1>>,
               <<417, 421, 2, 1>>, <<424, 424, 1, 1>>, <<429, 429, 1, 1>>,
               <<432, 432, 1, 1>>, <<436, 438, 2, 1>>, <<441, 441, 1, 1>>,
               <<445, 445, 1, 1>>, <<453, 453, 1, 1>>, <<454, 454, 1, 2>>,
               <<456, 456, 1, 1>>, <<457, 457, 1, 2>>, <<459, 459, 1, 1>>,
               <<460, 460, 1, 2>>, <<462, 476, 2, 1>>, <<477, 477, 1, 79>>,
               <<479, 495, 2, 1>>, <<498, 498, 1, 1>>, <<499, 499, 1, 2>>,
               <<501, 501, 1, 1>>, <<502, 502, 1, 97>>, <<503, 503, 1, 56>>,
               <<505, 543, 2, 1>>, <<544, 544, 1, 130>>, <<547, 563, 2, 1>>,
               <<572, 572, 1, 1>>, <<573, 573, 1, 163>>, <<578, 578, 1, 1>>,
               <<579, 579, 1, 195>>, <<583, 591, 2, 1>>,
               <<595, 595, 1, 210>>, <<596, 596, 1, 206>>,
               <<598, 599, 1, 205>>, <<601, 601, 1, 202>>,
               <<603, 603, 1, 203>>, <<608, 608, 1, 205>>,
               <<611, 611, 1, 207>>, <<616, 616, 1, 209>>,
               <<617, 617, 1, 211>>, <<623, 623, 1, 211>>,
               <<626, 626, 1, 213>>, <<629, 629, 1, 214>>,
               <<640, 640, 1, 218>>, <<643, 643, 1, 218>>,
               <<648, 648, 1, 218>>, <<649, 649, 1, 69>>,
               <<650, 651, 1, 217>>, <<652, 652, 1, 71>>,
               <<658, 658, 1, 219>>, <<881, 883, 2, 1>>, <<887, 887, 1, 1>>,
               <<921, 921, 1, 84>>, <<924, 924, 1, 743>>,
               <<940, 940, 1, 38>>, <<941, 943, 1, 37>>, <<945, 952, 1, 32>>,
               <<953, 953, 1, 116>>, <<954, 955, 1, 32>>,
               <<956, 956, 1, 775>>, <<957, 961, 1, 32>>,
               <<962, 962, 1, 31>>, <<963, 971, 1, 32>>, <<972, 972, 1, 64>>,
               <<973, 974, 1, 63>>, <<976, 976, 1, 62>>, <<977, 977, 1, 57>>,
               <<981, 981, 1, 47>>, <<982, 982, 1, 54>>, <<983, 983, 1, 8>>,
               <<985, 1007, 2, 1>>, <<1008, 1008, 1, 86>>,
               <<1009, 1009, 1, 80>>, <<1011, 1011, 1, 116>>,
               <<1012, 1012, 1, 92>>, <<1013, 1013, 1, 96>>,
               <<1016, 1016, 1, 1>>, <<1017, 1017, 1, 7>>,
               <<1019, 1019, 1, 1>>, <<1021, 1023, 1, 130>>,
               <<1072, 1103, 1, 32>>, <<1104, 1119, 1, 80>>,
               <<1121, 1153, 2, 1>>, <<1163, 1215, 2, 1>>,
               <<1218, 1230, 2, 1>>, <<1231, 1231, 1, 15>>,
               <<1233, 1327, 2, 1>>, <<1377, 1414, 1, 48>>,
               <<5112, 5117, 1, 8>>, <<7296, 7296, 1, 6254>>,
               <<7297, 7297, 1, 6253>>, <<7298, 7298, 1, 6244>>,
               <<7299, 7300, 1, 6242>>, <<7301, 7301, 1, 6243>>,
               <<7302, 7302, 1, 6236>>, <<7303, 7303, 1, 6181>>,
               <<7312, 7354, 1, 3008>>, <<7357, 7359, 1, 3008>>,
               <<7681, 7829, 2, 1>>, <<7835, 7835, 1, 59>>,
               <<7838, 7838, 1, 7615>>, <<7841, 7935, 2, 1>>,
               <<7944, 7951, 1, 8>>, <<7960, 7965, 1, 8>>,
               <<7976, 7983, 1, 8>>, <<7992, 7999, 1, 8>>,
               <<8008, 8013, 1, 8>>, <<8025, 8031, 2, 8>>,
               <<8040, 8047, 1, 8>>, <<8072, 8079, 1, 8>>,
               <<8088, 8095, 1, 8>>, <<8104, 8111, 1, 8>>,
               <<8120, 8121, 1, 8>>, <<8122, 8123, 1, 74>>,
               <<8124, 8124, 1, 9>>, <<8126, 8126, 1, 7289>>,
               <<8136, 8139, 1, 86>>, <<8140, 8140, 1, 9>>,
               <<8152, 8153, 1, 8>>, <<8154, 8155, 1, 100>>,
               <<8168, 8169, 1, 8>>, <<8170, 8171, 1, 112>>,
               <<8172, 8172, 1, 7>>, <<8184, 8185, 1, 128>>,
               <<8186, 8187, 1, 126>>, <<8188, 8188, 1, 9>>,
               <<8486, 8486, 1, 7549>>, <<8490, 8490, 1, 8415>>,
               <<8491, 8491, 1, 8294>>, <<8526, 8526, 1, 28>>,
               <<8560, 8575, 1, 16>>, <<8580, 8580, 1, 1>>,
               <<9424, 9449, 1, 26>>, <<11312, 11359, 1, 48>>,
               <<11361, 11361, 1, 1>>, <<11362, 11362, 1, 10743>>,
               <<11363, 11363, 1, 3814>>, <<11364, 11364, 1, 10727>>,
               <<11365, 11365, 1, 10795>>, <<11366, 11366, 1, 10792>>,
               <<11368, 11372, 2, 1>>, <<11373, 11373, 1, 10780>>,
               <<11374, 11374, 1, 10749>>, <<11375, 11375, 1, 10783>>,
               <<11376, 11376, 1, 10782>>, <<11379, 11379, 1, 1>>,
               <<11382, 11382, 1, 1>>, <<11390, 11391, 1, 10815>>,
               <<11393, 11491, 2, 1>>, <<11500, 11502, 2, 1>>,
               <<11507, 11507, 1, 1>>, <<11520, 11557, 1, 7264>>,
               <<11559, 11559, 1, 7264>>, <<11565, 11565, 1, 7264>>,
               <<42561, 42569, 2, 1>>, <<42570, 42570, 1, 35266>>,
               <<42571, 42571, 1, 35267>>, <<42573, 42605, 2, 1>>,
               <<42625, 42651, 2, 1>>, <<42787, 42799, 2, 1>>,
               <<42803, 42863, 2, 1>>, <<42874, 42876, 2, 1>>,
               <<42877, 42877, 1, 35332>>, <<42879, 42887, 2, 1>>,
               <<42892, 42892, 1, 1>>, <<42893, 42893, 1, 42280>>,
               <<42897, 42899, 2, 1>>, <<42903, 42921, 2, 1>>,
               <<42922, 42922, 1, 42308>>, <<42923, 42923, 1, 42319>>,
               <<42924, 42924, 1, 42315>>, <<42925, 42925, 1, 42305>>,
               <<42926, 42926, 1, 42308>>, <<42928, 42928, 1, 42258>>,
               <<42929, 42929, 1, 42282>>, <<42930, 42930, 1, 42261>>,
               <<42933, 42947, 2, 1>>, <<42948, 42948, 1, 48>>,
               <<42949, 42949, 1, 42307>>, <<42950, 42950, 1, 35384>>,
               <<42952, 42954, 2, 1>>, <<42961, 42961, 1, 1>>,
               <<42967, 42969, 2, 1>>, <<42998, 42998, 1, 1>>,
               <<43859, 43859, 1, 928>>, <<43888, 43967, 1, 38864>>,
               <<65345, 65370, 1, 32>>, <<66600, 66639, 1, 40>>,
               <<66776, 66811, 1, 40>>, <<66967, 66977, 1, 39>>,
               <<66979, 66993, 1, 39>>, <<66995, 67001, 1, 39>>,
               <<67003, 67004, 1, 39>>, <<68800, 68850, 1, 64>>,
               <<71872, 71903, 1, 32>>, <<93792, 93823, 1, 32>>,
               <<125218, 125251, 1, 34>> >>
        run == {i \in DOMAIN orbits :
                   /\ r \in orbits[i][1] .. orbits[i][2]
                   /\ (r - orbits[i][1]) % orbits[i][3] = 0}
    IN IF run = {} THEN r ELSE r - orbits[CHOOSE i \in run : TRUE][4]

(* encoding/json foldName, the folding under which a key is compared with  *)
(* a field name when none is equal to it: a lower-case ASCII letter        *)
(* becomes the upper-case one, another ASCII byte is kept, and a rune      *)
(* beyond ASCII is replaced by the encoding of foldRune of it              *)
RECURSIVE foldName(_)
foldName(s) ==
    IF s = <<>>
    THEN <<>>
    ELSE (IF CodeOf(s[1]) < RuneSelf
          THEN <<ByteOf(IF CodeOf(s[1]) \in 97 .. 122
                        THEN CodeOf(s[1]) - 32
                        ELSE CodeOf(s[1]))>>
          ELSE EncodeRune(foldRune(DecodeRune(s).r)))
             \o foldName(SubSeq(s, DecodeRune(s).size + 1, Len(s)))

(* The field a key names, as an index of FieldNames: the one with that     *)
(* name, else the first one whose name folds to the same bytes, else 0     *)
FieldOf(key) ==
    IF \E f \in 1 .. Len(FieldNames) : FieldNames[f] = key
    THEN CHOOSE f \in 1 .. Len(FieldNames) : FieldNames[f] = key
    ELSE IF \E f \in 1 .. Len(FieldNames) : foldName(FieldNames[f]) = foldName(key)
    THEN CHOOSE f \in 1 .. Len(FieldNames) : foldName(FieldNames[f]) = foldName(key)
    ELSE 0

(* An error of Decode: its kind and the name it carries; the text of the   *)
(* error a field's UnmarshalJSON returned for kind "other"                 *)
DecodeError(kind, arg) == [kind |-> kind, arg |-> arg]
NoError == DecodeError("nil", <<>>)

(* One member of a JSON object decoded into the input struct: st holds the *)
(* struct, the first error saved so far and the error that ended decoding  *)
DecodeRuntime(st, r) ==
    IF r.err # Nil
    THEN [st EXCEPT !.hard = DecodeError("other", r.err)]
    ELSE [st EXCEPT !.input.Runtime = r.r]

(* A value of the wrong JSON type for the field f, an unknown key k: the   *)
(* first such error is saved and decoding goes on                          *)
SaveError(st, err) == IF st.saved.kind = "nil" THEN [st EXCEPT !.saved = err] ELSE st

(* reflect.Value.OverflowInt for an int32 field, of a parsed number *)
OverflowInt(a) ==
    DigitsGreater(a.mag,
                  IF a.neg THEN SubSeq(MaxInt32Digits, 1, 9) \o <<"8">>
                  ELSE MaxInt32Digits)

(* A JSON number is stored into the int32 field Year when ParseInt of its  *)
(* literal (base 10, 64 bits) succeeds and the value fits the field        *)
DecodeField(st, f, k, v) ==
    CASE f = 1 ->
            IF v.t = "string" THEN [st EXCEPT !.input.Title = v.s]
            ELSE IF v.t = "null" THEN st
            ELSE SaveError(st, DecodeError("type", FieldNames[f]))
      [] f = 2 ->
            IF v.t = "number"
            THEN LET a == ParseDecimal(v.raw, MaxInt64Digits, MinInt64Digits)
                 IN IF ~a.ok \/ OverflowInt(a)
                    THEN SaveError(st, DecodeError("type", FieldNames[f]))
                    ELSE [st EXCEPT !.input.Year = ToInt32(a)]
            ELSE IF v.t = "null" THEN st
            ELSE SaveError(st, DecodeError("type", FieldNames[f]))
      [] f = 3 ->
            DecodeRuntime(st, UnmarshalJSON(st.input.Runtime, v.raw))
      [] f = 4 ->
            IF v.t = "array" THEN [st EXCEPT !.input.Genres = Slice(v.a)]
            ELSE IF v.t = "null" THEN [st EXCEPT !.input.Genres = NilSlice]
            ELSE SaveError(st, DecodeError("type", FieldNames[f]))
      [] OTHER -> SaveError(st, DecodeError("unknown", k))

DecodeMember(st, k, v) ==
    IF st.hard.kind # "nil" THEN st ELSE DecodeField(st, FieldOf(k), k, v)

RECURSIVE DecodeMembers(_, _)
DecodeMembers(st, ms) ==
    IF ms = <<>>
    THEN st
    ELSE DecodeMembers(DecodeMember(st, Head(ms).k, Head(ms).v), Tail(ms))

(* What Decode returns once the members are decoded: the error that ended  *)
(* decoding, else the first error saved, and the struct as far as filled   *)
DecodeResult(st) ==
    [err   |-> IF st.hard.kind # "nil" THEN st.hard ELSE st.saved,
     input |-> st.input]

(* decoder.Decode(dst) with DisallowUnknownFields on what is left of the   *)
(* body: the next value is scanned whole, then stored into the struct.     *)
(* The reader of the body returns its *http.MaxBytesError when the decoder *)
(* asks for the bytes beyond the limit, which it does only for a value it  *)
(* has not yet scanned to its end.                                         *)
Decode(items, dst) ==
    IF items = <<>>
    THEN [err |-> DecodeError("eof", <<>>), input |-> dst]
    ELSE LET v == Head(items)
         IN CASE v.t = "syntax" ->
                    [err |-> DecodeError("syntax", <<>>), input |-> dst]
              [] v.t = "truncated" ->
                    [err |-> DecodeError("unexpectedEOF", <<>>), input |-> dst]
              [] v.t = "overlimit" ->
                    [err |-> DecodeError("maxBytes", <<>>), input |-> dst]
              [] v.t = "null" -> [err |-> NoError, input |-> dst]
              [] v.t = "object" ->
                    DecodeResult(DecodeMembers(
                        [input |-> dst, saved |-> NoError, hard |-> NoError], v.m))
              [] OTHER ->
                    [err |-> DecodeError("type", <<>>), input |-> dst]

(* The limit readJSON puts on the bytes of a body *)
max_bytes == 1048576

(* The switch of readJSON over the error of the first Decode d; without an *)
(* error, the second Decode must have met the end of the body.  A message  *)
(* is given by its text and the argument formatted into it.                *)
readJSONError(d, second) ==
    LET failed(msg, arg) == [ok |-> FALSE, msg |-> msg, arg |-> arg, input |-> d.input]
    IN CASE d.err.kind = "syntax" ->
                failed("body contains badly-formed JSON (at character)", <<>>)
         [] d.err.kind = "unexpectedEOF" ->
                failed("body contains badly-formed JSON", <<>>)
         [] d.err.kind = "type" ->
                IF d.err.arg # <<>>
                THEN failed("body contains incorrect JSON type for field", d.err.arg)
                ELSE failed("body contains incorrect JSON type (at character)", <<>>)
         [] d.err.kind = "eof" -> failed("body must not be empty", <<>>)
         [] d.err.kind = "unknown" ->
                failed("body contains unknown key", d.err.arg)
         [] d.err.kind = "maxBytes" ->
                failed("body must not be larger than bytes", FormatInt(max_bytes))
         [] d.err.kind = "other" -> failed(d.err.arg, <<>>)
         [] OTHER ->
                IF second.err.kind # "eof"
                THEN failed("body must contain a single JSON value", <<>>)
                ELSE [ok |-> TRUE, msg |-> "", arg |-> <<>>, input |-> d.input]

(* readJSON: the body behind the reader that stops at max_bytes, the first *)
(* Decode into dst, its error translated, then a second Decode of what     *)
(* follows the first value                                                 *)
readJSON(body, dst) ==
    readJSONError(Decode(body, dst),
                  Decode(IF body = <<>> THEN <<>> ELSE Tail(body), ZeroInput))

(* The responses a handler writes.  writeJSON sets the status and writes   *)
(* the envelope; the error helpers (errors.go) wrap a message in the       *)
(* "error" envelope and write it with their status.                        *)
writeJSON(w, status, key) == Append(w, [status |-> status, key |-> key])

StatusOK == 200
StatusCreated == 201
StatusNoContent == 204
StatusBadRequest == 400
StatusNotFound == 404
StatusConflict == 409
StatusUnprocessableEntity == 422
StatusInternalServerError == 500

notFoundResponse(w) == writeJSON(w, StatusNotFound, "error")
badRequestResponse(w) == writeJSON(w, StatusBadRequest, "error")
failedValidationResponse(w) == writeJSON(w, StatusUnprocessableEntity, "error")
serverErrorResponse(w) == writeJSON(w, StatusInternalServerError, "error")

(* The status the client receives: the first WriteHeader call sets it *)
ResponseStatus(w) == IF w = <<>> THEN 0 ELSE w[1].status

----------------------------------------------------------------------------
(* Callers of the store: each holds a *Movie and calls the four methods *)

(* The field values callers write; a title is the sequence of its bytes *)
Casablanca ==
    [Title |-> <<"C", "a", "s", "a", "b", "l", "a", "n", "c", "a">>,
     Year |-> 1942, Runtime |-> 102,
     Genres |-> Slice(<<"drama", "romance", "war">>)]
BlackPanther ==
    [Title |-> <<"B", "l", "a", "c", "k", " ", "P", "a", "n", "t", "h", "e", "r">>,
     Year |-> 2018, Runtime |-> 134,
     Genres |-> Slice(<<"action", "adventure">>)]
StoreInputs == {Casablanca, BlackPanther}

(* The ids callers pass to Get and Delete *)
NonPositiveIDs == {-5, 0}
IDArgs == NonPositiveIDs \cup (1 .. MaxID)

WithFields(m, in) ==
    [m EXCEPT !.Title = in.Title, !.Year = in.Year, !.Runtime = in.Runtime,
              !.Genres = in.Genres]

NoCall == [op |-> "none", proc |-> "", id |-> 0, ver |-> 0, err |-> Nil,
           queried |-> FALSE]
NoRequest == [route |-> "none", id |-> <<>>]

InitAPI ==
    /\ db = <<>>
    /\ nextID = 1
    /\ movie = [p \in Procs |-> <<>>]
    /\ pc = [p \in Procs |-> "idle"]
    /\ params = [p \in Procs |-> <<>>]
    /\ last = NoCall
    /\ updates = [i \in 1 .. (MaxID + 1) |-> 0]
    /\ deleted = {}
    /\ req = NoRequest
    /\ resp = <<>>

InitValidator ==
    /\ validator = New
    /\ checks = <<>>
    /\ subject = <<>>

InitCodec ==
    rt = [pc |-> "idle", src |-> "none", r |-> 0, js |-> <<>>, t0 |-> 0,
          target |-> 0, err |-> Nil]

(* No body has been handed to readJSON *)
InitDecoder ==
    rj = [pc |-> "idle", body |-> <<>>,
          res |-> [ok |-> FALSE, msg |-> "", arg |-> <<>>, input |-> ZeroInput]]

Init == InitAPI /\ InitValidator /\ InitCodec /\ InitDecoder

(* A direct call of the store serves no request *)
NoRequestServed == req' = NoRequest /\ resp' = <<>> /\ UNCHANGED params

CallInsert(p, in) ==
    /\ pc[p] = "idle"
    /\ nextID <= MaxID
    /\ LET r == Insert(db, nextID, WithFields(ZeroMovie, in))
       IN /\ db' = r.db
          /\ nextID' = r.next
          /\ movie' = [movie EXCEPT ![p] = <<r.movie>>]
          /\ last' = [op |-> "Insert", proc |-> p, id |-> r.movie.ID,
                      ver |-> 0, err |-> r.err, queried |-> TRUE]
    /\ UNCHANGED <<pc, updates, deleted>>
    /\ NoRequestServed
    /\ UNCHANGED otherVars

CallGet(p, id) ==
    /\ pc[p] = "idle"
    /\ LET r == Get(db, id)
       IN /\ movie' = [movie EXCEPT ![p] = r.movie]
          /\ last' = [op |-> "Get", proc |-> p, id |-> id, ver |-> 0,
                      err |-> r.err, queried |-> r.queried]
    /\ UNCHANGED <<db, nextID, pc, updates, deleted>>
    /\ NoRequestServed
    /\ UNCHANGED otherVars

(* The caller changes the fields of the movie it holds and calls Update *)
CallUpdate(p, in) ==
    /\ pc[p] = "idle"
    /\ movie[p] # <<>>
    /\ movie[p][1].Version < MaxVersion
    /\ LET m == WithFields(movie[p][1], in)
           r == Update(db, m)
       IN /\ db' = r.db
          /\ movie' = [movie EXCEPT ![p] = <<r.movie>>]
          /\ last' = [op |-> "Update", proc |-> p, id |-> m.ID,
                      ver |-> m.Version, err |-> r.err, queried |-> TRUE]
          /\ updates' = IF r.err = Nil
                        THEN [updates EXCEPT ![m.ID] = @ + 1]
                        ELSE updates
    /\ UNCHANGED <<nextID, pc, deleted>>
    /\ NoRequestServed
    /\ UNCHANGED otherVars

CallDelete(p, id) ==
    /\ pc[p] = "idle"
    /\ LET r == Delete(db, id)
       IN /\ db' = r.db
          /\ last' = [op |-> "Delete", proc |-> p, id |-> id, ver |-> 0,
                      err |-> r.err, queried |-> r.queried]
          /\ deleted' = IF r.err = Nil THEN deleted \cup {id} ELSE deleted
          /\ updates' = IF r.err = Nil THEN [updates EXCEPT ![id] = 0] ELSE updates
    /\ UNCHANGED <<nextID, movie, pc>>
    /\ NoRequestServed
    /\ UNCHANGED otherVars

NextStore ==
    \/ \E p \in Procs, in \in StoreInputs : CallInsert(p, in)
    \/ \E p \in Procs, id \in IDArgs : CallGet(p, id)
    \/ \E p \in Procs, in \in StoreInputs : CallUpdate(p, in)
    \/ \E p \in Procs, id \in IDArgs : CallDelete(p, id)

----------------------------------------------------------------------------
(* The handlers.  A handler runs from the request to the response in one   *)
(* step, except updateMovieHandler, whose Get and Update are two           *)
(* statements of the database with other requests in between.  The movie   *)
(* of a handler is a local variable: it is gone when the handler returns.  *)

(* The id path parameters of the requests *)
IDParams ==
    {FormatInt(i) : i \in 1 .. MaxID} \cup
    { <<"0">>, <<"-", "5">>, <<"+", "1">>, <<"1", "?">> }

Mins == <<" ", "m", "i", "n", "s">>

Member(k, v) == [k |-> k, v |-> v]

BodyOf(in) ==
    << JObj(<< Member(TitleKey, JStr(in.Title)),
               Member(YearKey, JNum(in.Year)),
               Member(RuntimeKey, JRaw(MarshalJSON(in.Runtime))),
               Member(GenresKey, JArr(in.Genres.elems)) >>) >>

(* Keys a client may send: two that name no field, and two that name a     *)
(* field in another case                                                   *)
RatingKey == <<"r", "a", "t", "i", "n", "g">>
DirectorKey == <<"d", "i", "r", "e", "c", "t", "o", "r">>
TitleKeyCapital == <<"T", "i", "t", "l", "e">>
YearKeyUpper == <<"Y", "E", "A", "R">>

(* n copies of the bytes s, one after the other *)
RECURSIVE Repeat(_, _)
Repeat(s, n) ==
    IF n = 0 THEN <<>>
    ELSE IF n % 2 = 0
    THEN LET half == Repeat(s, n \div 2) IN half \o half
    ELSE s \o Repeat(s, n - 1)

(* The two bytes of the letter e with an acute accent (U+00E9) *)
EAcute == <<ByteOf(195), ByteOf(169)>>

(* Movies that break one validation rule each; the two over-long titles    *)
(* are 501 bytes of ASCII, and 502 bytes that are 251 characters           *)
InvalidInputs ==
    { [Casablanca EXCEPT !.Title = Repeat(<<"x">>, 501)],
      [Casablanca EXCEPT !.Title = Repeat(EAcute, 251)],
      [Casablanca EXCEPT !.Year = 1887],
      [Casablanca EXCEPT !.Year = CurrentYear + 1],
      [Casablanca EXCEPT !.Runtime = -5],
      [Casablanca EXCEPT !.Genres = Slice(<<"drama", "drama">>)] }

(* The request bodies: two valid movies, movies that break a validation    *)
(* rule, a movie without a title, a movie without genres, a movie whose    *)
(* genres are null, a body that is not JSON, a body with an                *)
(* unknown key, the first movie again with keys in another case and its   *)
(* runtime written with a JSON escape, a year beyond int32, and a body     *)
(* beyond the byte limit                                                   *)
Bodies ==
    { BodyOf(in) : in \in InvalidInputs } \cup
    { BodyOf(Casablanca),
      BodyOf(BlackPanther),
      << JObj(<< Member(YearKey, JNum(1942)),
                 Member(RuntimeKey, JRaw(<<Quote2, "5">> \o Mins \o <<Quote2>>)),
                 Member(GenresKey, JArr(<<"drama">>)) >>) >>,
      << JObj(<< Member(TitleKey, JStr(Casablanca.Title)),
                 Member(YearKey, JNum(Casablanca.Year)),
                 Member(RuntimeKey, JRaw(MarshalJSON(Casablanca.Runtime))) >>) >>,
      << JObj(<< Member(TitleKey, JStr(Casablanca.Title)),
                 Member(YearKey, JNum(Casablanca.Year)),
                 Member(RuntimeKey, JRaw(MarshalJSON(Casablanca.Runtime))),
                 Member(GenresKey, JNull) >>) >>,
      << JSyntax >>,
      << JObj(<< Member(TitleKey, JStr(Casablanca.Title)),
                 Member(RatingKey, JNum(5)) >>) >>,
      << JObj(<< Member(TitleKey, JStr(Casablanca.Title)),
                 Member(YearKey,
                        JNumber(<<"2", "1", "4", "7", "4", "8", "3", "6", "4", "8">>)) >>) >>,
      << JObj(<< Member(TitleKeyCapital, JStr(Casablanca.Title)),
                 Member(YearKeyUpper, JNum(Casablanca.Year)),
                 Member(RuntimeKey,
                        JRaw(<<Quote2, "1", BackSlash, "u", "0", "0", "3", "0", "2">>
                                 \o Mins \o <<Quote2>>)),
                 Member(GenresKey, JArr(Casablanca.Genres.elems)) >>) >>,
      << JOverLimit >> }

(* What readJSON returns for each body and readIDParam for each parameter  *)
DecodedBody == [body \in Bodies |-> readJSON(body, ZeroInput)]
ParsedID == [stringID \in IDParams |-> readIDParam(stringID)]

StoreCall(p, op, id, ver, err, queried) ==
    [op |-> op, proc |-> p, id |-> id, ver |-> ver, err |-> err,
     queried |-> queried]
NoStoreCall(p) == StoreCall(p, "none", 0, 0, Nil, FALSE)

(* createMovieHandler once readJSON has returned in *)
createMovie(p, in) ==
    /\ LET m  == WithFields(ZeroMovie, in.input)
           r  == Insert(db, nextID, m)
       IN IF ~in.ok
          THEN /\ resp' = badRequestResponse(<<>>)
               /\ last' = NoStoreCall(p)
               /\ UNCHANGED <<db, nextID>>
          ELSE IF ~Valid(ValidateMovie(New, m))
          THEN /\ resp' = failedValidationResponse(<<>>)
               /\ last' = NoStoreCall(p)
               /\ UNCHANGED <<db, nextID>>
          ELSE /\ db' = r.db
               /\ nextID' = r.next
               /\ last' = StoreCall(p, "Insert", r.movie.ID, 0, r.err, TRUE)
               /\ resp' = writeJSON(<<>>, StatusCreated, "movie")
    /\ movie' = [movie EXCEPT ![p] = <<>>]
    /\ params' = [params EXCEPT ![p] = <<>>]
    /\ UNCHANGED <<pc, updates, deleted>>
    /\ UNCHANGED otherVars

createMovieHandler(p, body) ==
    /\ pc[p] = "idle"
    /\ nextID <= MaxID
    /\ req' = [route |-> "create", id |-> <<>>]
    /\ createMovie(p, DecodedBody[body])

showMovieHandler(p, stringID) ==
    /\ pc[p] = "idle"
    /\ req' = [route |-> "show", id |-> stringID]
    /\ LET param == ParsedID[stringID]
           r     == Get(db, param.id)
       IN IF param.err # Nil
          THEN /\ resp' = notFoundResponse(<<>>)
               /\ last' = NoStoreCall(p)
          ELSE /\ last' = StoreCall(p, "Get", param.id, 0, r.err, r.queried)
               /\ resp' = IF r.err # Nil
                          THEN notFoundResponse(<<>>)
                          ELSE writeJSON(<<>>, StatusOK, "movie")
    /\ movie' = [movie EXCEPT ![p] = <<>>]
    /\ params' = [params EXCEPT ![p] = <<>>]
    /\ UNCHANGED <<db, nextID, pc, updates, deleted>>
    /\ UNCHANGED otherVars

(* updateMovieHandler up to and including its Get *)
updateMovieHandlerGet(p, stringID) ==
    /\ pc[p] = "idle"
    /\ req' = [route |-> "update", id |-> stringID]
    /\ LET param == ParsedID[stringID]
           r     == Get(db, param.id)
       IN IF param.err # Nil
          THEN /\ resp' = notFoundResponse(<<>>)
               /\ last' = NoStoreCall(p)
               /\ movie' = [movie EXCEPT ![p] = <<>>]
               /\ UNCHANGED <<pc, params>>
          ELSE /\ r.err = Nil => r.movie[1].Version < MaxVersion
               /\ last' = StoreCall(p, "Get", param.id, 0, r.err, r.queried)
               /\ movie' = [movie EXCEPT ![p] = r.movie]
               /\ IF r.err # Nil
                  THEN /\ resp' = notFoundResponse(<<>>)
                       /\ UNCHANGED <<pc, params>>
                  ELSE /\ resp' = <<>>
                       /\ pc' = [pc EXCEPT ![p] = "updating"]
                       /\ params' = [params EXCEPT ![p] = stringID]
    /\ UNCHANGED <<db, nextID, updates, deleted>>
    /\ UNCHANGED otherVars

(* What updateMovieHandler writes after Update returned err: on an error   *)
(* the server error response, and, as no return follows it, in every case  *)
(* the 200 response with the movie                                         *)
updateResponse(w, err) ==
    writeJSON(IF err # Nil THEN serverErrorResponse(w) ELSE w,
              StatusOK, "movie")

(* updateMovieHandler once readJSON has returned in *)
updateMovie(p, in) ==
    /\ LET m  == WithFields(movie[p][1], in.input)
           r  == Update(db, m)
       IN IF ~in.ok
          THEN /\ resp' = badRequestResponse(<<>>)
               /\ last' = NoStoreCall(p)
               /\ UNCHANGED <<db, updates>>
          ELSE IF ~Valid(ValidateMovie(New, m))
          THEN /\ resp' = failedValidationResponse(<<>>)
               /\ last' = NoStoreCall(p)
               /\ UNCHANGED <<db, updates>>
          ELSE /\ db' = r.db
               /\ last' = StoreCall(p, "Update", m.ID, m.Version, r.err, TRUE)
               /\ updates' = IF r.err = Nil
                             THEN [updates EXCEPT ![m.ID] = @ + 1]
                             ELSE updates
               /\ resp' = updateResponse(<<>>, r.err)
    /\ movie' = [movie EXCEPT ![p] = <<>>]
    /\ params' = [params EXCEPT ![p] = <<>>]
    /\ UNCHANGED <<nextID, deleted>>
    /\ UNCHANGED otherVars

(* updateMovieHandler from readJSON on; the request it answers is the one  *)
(* it read the movie for, with the id parameter that request carries       *)
updateMovieHandlerWrite(p, body) ==
    /\ pc[p] = "updating"
    /\ pc' = [pc EXCEPT ![p] = "idle"]
    /\ req' = [route |-> "update", id |-> params[p]]
    /\ updateMovie(p, DecodedBody[body])

deleteMovieHandler(p, stringID) ==
    /\ pc[p] = "idle"
    /\ req' = [route |-> "delete", id |-> stringID]
    /\ LET param == ParsedID[stringID]
           r     == Delete(db, param.id)
       IN IF param.err # Nil
          THEN /\ resp' = notFoundResponse(<<>>)
               /\ last' = NoStoreCall(p)
               /\ UNCHANGED <<db, deleted, updates>>
          ELSE /\ db' = r.db
               /\ deleted' = IF r.err = Nil THEN deleted \cup {param.id} ELSE deleted
               /\ updates' = IF r.err = Nil
                             THEN [updates EXCEPT ![param.id] = 0]
                             ELSE updates
               /\ last' = StoreCall(p, "Delete", param.id, 0, r.err, r.queried)
               /\ resp' = IF r.err # Nil
                          THEN notFoundResponse(<<>>)
                          ELSE writeJSON(<<>>, StatusNoContent, "message")
    /\ movie' = [movie EXCEPT ![p] = <<>>]
    /\ params' = [params EXCEPT ![p] = <<>>]
    /\ UNCHANGED <<nextID, pc>>
    /\ UNCHANGED otherVars

NextHandlers ==
    \/ \E p \in Procs, body \in Bodies : createMovieHandler(p, body)
    \/ \E p \in Procs, id \in IDParams : showMovieHandler(p, id)
    \/ \E p \in Procs, id \in IDParams : updateMovieHandlerGet(p, id)
    \/ \E p \in Procs, body \in Bodies : updateMovieHandlerWrite(p, body)
    \/ \E p \in Procs, id \in IDParams : deleteMovieHandler(p, id)

(* The store under its direct callers *)
SpecStore == Init /\ [][NextStore]_vars

(* The API: requests served by the handlers *)
SpecHandlers == Init /\ [][NextHandlers]_vars

Next == NextHandlers

Spec == SpecHandlers

(* The API next to direct calls of Get and Delete with an id below 1,      *)
(* which no handler makes                                                  *)
NextLookup ==
    \/ NextHandlers
    \/ \E p \in Procs, id \in NonPositiveIDs : CallGet(p, id)
    \/ \E p \in Procs, id \in NonPositiveIDs : CallDelete(p, id)

SpecLookup == Init /\ [][NextLookup]_vars

----------------------------------------------------------------------------
(* The validator on its own: any sequence of Check calls on one Validator, *)
(* or ValidateMovie applied to a movie                                     *)

CheckKeys == {"title", "genres"}
CheckMessages == {"must be provided", "must not contain duplicate values"}

GenreNames ==
    <<"drama", "romance", "war", "action", "adventure", "comedy", "crime",
      "western">>

(* nil, the lists of 0 .. MaxGenres distinct genres, and lists that repeat *)
(* a genre                                                                 *)
GenreLists ==
    {NilSlice}
    \cup {Slice(SubSeq(GenreNames, 1, k)) : k \in 0 .. MaxGenres}
    \cup {Slice(Append(SubSeq(GenreNames, 1, k), GenreNames[1])) : k \in 1 .. 2}

MovieInputs ==
    [Title   : {<<>>, Casablanca.Title, Repeat(<<"x">>, 500),
                Repeat(<<"x">>, 501), Repeat(EAcute, 250), Repeat(EAcute, 251)},
     Year    : {0, 1887, 1888, 1942, CurrentYear, CurrentYear + 1},
     Runtime : {-5, 0, 102},
     Genres  : GenreLists]

InitValidatorInputs ==
    /\ InitAPI
    /\ InitCodec
    /\ InitDecoder
    /\ validator = New
    /\ checks = <<>>
    /\ subject \in {<<>>} \cup {<<WithFields(ZeroMovie, in)>> : in \in MovieInputs}

(* The log of the calls made on the validator: the method called and its  *)
(* arguments (AddError takes no condition: it is logged as a failure)      *)
Called(call, ok, key, message) ==
    [call |-> call, ok |-> ok, key |-> key, message |-> message]

DoCheck(ok, key, message) ==
    /\ subject = <<>>
    /\ Len(checks) < MaxChecks
    /\ validator' = Check(validator, ok, key, message)
    /\ checks' = Append(checks, Called("Check", ok, key, message))
    /\ UNCHANGED <<subject, rt, rj>>
    /\ UNCHANGED apiVars

(* A caller of the package calls the exported AddError itself *)
DoAddError(key, message) ==
    /\ subject = <<>>
    /\ Len(checks) < MaxChecks
    /\ validator' = AddError(validator, key, message)
    /\ checks' = Append(checks, Called("AddError", FALSE, key, message))
    /\ UNCHANGED <<subject, rt, rj>>
    /\ UNCHANGED apiVars

DoValidateMovie ==
    /\ subject # <<>>
    /\ checks = <<>>
    /\ validator' = ValidateMovie(validator, subject[1])
    /\ checks' = [i \in DOMAIN MovieChecks(subject[1]) |->
                     Called("Check", MovieChecks(subject[1])[i].ok,
                            MovieChecks(subject[1])[i].key,
                            MovieChecks(subject[1])[i].message)]
    /\ UNCHANGED <<subject, rt, rj>>
    /\ UNCHANGED apiVars

NextValidator ==
    \/ \E ok \in BOOLEAN, key \in CheckKeys, message \in CheckMessages :
          DoCheck(ok, key, message)
    \/ \E key \in CheckKeys, message \in CheckMessages :
          DoAddError(key, message)
    \/ DoValidateMovie

SpecValidator == InitValidatorInputs /\ [][NextValidator]_vars

----------------------------------------------------------------------------
(* The Runtime codec on its own: a Runtime is encoded and the bytes are    *)
(* decoded into a *Runtime, or given bytes are decoded                     *)

RuntimeValues ==
    ((0 - MaxRuntime) .. MaxRuntime)
    \cup {MinInt32, MinInt32 + 1, -1000000, 99999, MaxInt32 - 1, MaxInt32}

(* The value the target holds before UnmarshalJSON *)
TargetValues == {0, 7}

Quoted(s) == <<Quote2>> \o s \o <<Quote2>>

(* Bytes handed to UnmarshalJSON that MarshalJSON did not produce *)
RawInputs ==
    { Quoted(<<"5">> \o Mins),
      Quoted(<<"+", "5">> \o Mins),
      Quoted(<<"0", "5">> \o Mins),
      Quoted(<<"5", " ">> \o Mins),
      Quoted(<<"5", " ", "m", "i", "n">>),
      Quoted(<<"?">> \o Mins),
      Quoted(Mins),
      Quoted(<<"2", "1", "4", "7", "4", "8", "3", "6", "4", "8">> \o Mins),
      Quoted(<<"-", "2", "1", "4", "7", "4", "8", "3", "6", "4", "9">> \o Mins),
      Quoted(<<"4", "2", "9", "4", "9", "6", "7", "3", "0", "1">> \o Mins),
      Quoted(<<"5", " ", " ">> \o Tail(Mins)),
      Quoted(<<"5">> \o Mins \o <<" ", "x">>),
      Quoted(<<"9", "2", "2", "3", "3", "7", "2", "0", "3", "6", "8", "5",
               "4", "7", "7", "5", "8", "0", "8">> \o Mins),
      Quoted(<<BackSlash, "x", "3", "5">> \o Mins),
      Quoted(<<BackSlash, "u", "0", "0", "3", "5">> \o Mins),
      Quoted(<<"5", BackSlash, "x", "2", "0", "m", "i", "n", "s">>),
      Quoted(<<BackSlash, "t", "5">> \o Mins),
      Quoted(<<BackSlash, "u", "d", "8", "0", "0">> \o Mins),
      Quoted(<<"5">> \o Mins \o <<"0xFF">>),
      <<BackQuote, "5">> \o Mins \o <<BackQuote>>,
      <<BackQuote, "5", CarriageReturn>> \o Mins \o <<BackQuote>>,
      <<Quote1, "5", Quote1>>,
      <<Quote1, "0xC3", "0xA9", Quote1>>,
      <<"5">> \o Mins,
      <<"5">>,
      <<>> }

InitCodecInputs ==
    /\ InitAPI
    /\ InitValidator
    /\ InitDecoder
    /\ \/ \E n \in RuntimeValues, t \in TargetValues :
             rt = [pc |-> "start", src |-> "runtime", r |-> n, js |-> <<>>,
                   t0 |-> t, target |-> t, err |-> Nil]
       \/ \E js \in RawInputs, t \in TargetValues :
             rt = [pc |-> "encoded", src |-> "bytes", r |-> 0, js |-> js,
                   t0 |-> t, target |-> t, err |-> Nil]

Marshal ==
    /\ rt.pc = "start"
    /\ rt' = [rt EXCEPT !.pc = "encoded", !.js = MarshalJSON(rt.r)]
    /\ UNCHANGED <<validator, checks, subject, rj>>
    /\ UNCHANGED apiVars

Unmarshal ==
    /\ rt.pc = "encoded"
    /\ LET u == UnmarshalJSON(rt.target, rt.js)
       IN rt' = [rt EXCEPT !.pc = "decoded", !.target = u.r, !.err = u.err]
    /\ UNCHANGED <<validator, checks, subject, rj>>
    /\ UNCHANGED apiVars

NextCodec == Marshal \/ Unmarshal

SpecCodec == InitCodecInputs /\ [][NextCodec]_vars

----------------------------------------------------------------------------
(* readJSON on its own: a request body is decoded into the zero input      *)
(* struct of the handlers                                                  *)

MaxValues == 2

(* The members a client may send for each key: none, a value that fits,    *)
(* and values that do not                                                  *)
TitleMembers ==
    { <<>>, <<Member(TitleKey, JStr(Casablanca.Title))>>,
      <<Member(TitleKey, JNum(7))>>,
      <<Member(TitleKeyCapital, JStr(Casablanca.Title))>> }
YearMembers ==
    { <<>>, <<Member(YearKey, JNum(1942))>>,
      <<Member(YearKey, JNumber(<<"2", "1", "4", "7", "4", "8", "3", "6", "4", "8">>))>>,
      <<Member(YearKey, JNumber(<<"1", ".", "5">>))>> }
RuntimeMembers ==
    { <<>>,
      <<Member(RuntimeKey, JRaw(Quoted(<<"1", "0", "2">> \o Mins)))>>,
      <<Member(RuntimeKey, JRaw(Quoted(<<"1", "0", "2", " ", "m", "i", "n">>)))>>,
      <<Member(RuntimeKey, JRaw(Quoted(
            <<"4", "2", "9", "4", "9", "6", "7", "3", "0", "1">> \o Mins)))>>,
      <<Member(RuntimeKey, JRaw(Quoted(
            <<BackSlash, "u", "0", "0", "3", "5">> \o Mins)))>>,
      <<Member(RuntimeKey, JNum(102))>>,
      <<Member(RuntimeKey, JNull)>> }
GenresMembers ==
    { <<>>, <<Member(GenresKey, JArr(<<"drama">>))>>, <<Member(GenresKey, JNull)>> }
LeadingUnknown == { <<>>, <<Member(RatingKey, JNum(5))>> }
TrailingUnknown == { <<>>, <<Member(DirectorKey, JStr(<<"C", "u", "r", "t", "i", "z">>))>> }

Objects ==
    { JObj(u1 \o t \o y \o r \o g \o u2) :
        u1 \in LeadingUnknown, t \in TitleMembers, y \in YearMembers,
        r \in RuntimeMembers, g \in GenresMembers, u2 \in TrailingUnknown }

(* The first value of a body, and what may follow a value *)
FirstValues ==
    Objects \cup {JSyntax, JTruncated, JOverLimit, JNull, JNum(5), JArr(<<>>)}
Followers == {JSyntax, JOverLimit, JNull, JObj(<<>>)}

RECURSIVE FollowerSeqs(_)
FollowerSeqs(n) ==
    IF n = 0 THEN {<<>>}
    ELSE FollowerSeqs(n - 1) \cup
         {Append(fs, f) : fs \in FollowerSeqs(n - 1), f \in Followers}

DecoderBodies ==
    {<<>>} \cup
    {<<v>> \o fs : v \in FirstValues, fs \in FollowerSeqs(MaxValues - 1)}

InitDecoderInputs ==
    /\ InitAPI
    /\ InitValidator
    /\ InitCodec
    /\ \E body \in DecoderBodies :
          rj = [pc |-> "start", body |-> body,
                res |-> [ok |-> FALSE, msg |-> "", arg |-> <<>>, input |-> ZeroInput]]

ReadJSON ==
    /\ rj.pc = "start"
    /\ rj' = [rj EXCEPT !.pc = "done", !.res = readJSON(rj.body, ZeroInput)]
    /\ UNCHANGED <<validator, checks, subject, rt>>
    /\ UNCHANGED apiVars

NextDecoder == ReadJSON

SpecDecoder == InitDecoderInputs /\ [][NextDecoder]_vars

----------------------------------------------------------------------------
(* Properties of the store *)

SameRowsExcept(d1, d2, id) ==
    \A i \in ((DOMAIN d1) \cup (DOMAIN d2)) \ {id} :
        i \in DOMAIN d1 /\ i \in DOMAIN d2 /\ d1[i] = d2[i]

(* C1: of two Updates of one record that carry the same version v and run  *)
(* one right after the other (in either order of the two callers, no other *)
(* writer), the first finds the row at v, succeeds and leaves it at v+1,   *)
(* and the second returns ErrEditConflict and writes nothing.              *)
C1_WinnerStep ==
    (/\ last'.op = "Update"
     /\ HasRow(db, last'.id)
     /\ db[last'.id].version = last'.ver)
    => /\ last'.err = Nil
       /\ db'[last'.id].version = last'.ver + 1
C1_LoserStep ==
    (/\ last.op = "Update" /\ last.err = Nil
     /\ last'.op = "Update"
     /\ last'.proc # last.proc
     /\ last'.id = last.id
     /\ last'.ver = last.ver)
    => /\ last'.err = ErrEditConflict
       /\ db' = db
       /\ db'[last.id].version = last.ver + 1
       /\ movie[last.proc] = <<RowMovie(db', last.id)>>
C1_ExactlyOneUpdateWins == [][C1_WinnerStep /\ C1_LoserStep]_vars

(* C1 witness: B lost the race against A on a record both held at the same *)
(* version: A's fields and version are stored, B's differ from them        *)
C1_Witness ==
    /\ last.op = "Update" /\ last.proc = "B" /\ last.err = ErrEditConflict
    /\ movie["A"] # <<>> /\ movie["B"] # <<>>
    /\ movie["A"][1].ID = last.id
    /\ movie["A"][1].Version = last.ver + 1
    /\ HasRow(db, last.id)
    /\ movie["A"][1] = RowMovie(db, last.id)
    /\ movie["B"][1].Title # movie["A"][1].Title

(* C2: Update returns nil exactly when a row has the record's id and       *)
(* version; then it writes the record's fields and version + 1 to that row *)
(* alone; otherwise it returns ErrEditConflict, creates no row and leaves  *)
(* every row unchanged.                                                    *)
C2_UpdateStep ==
    last'.op = "Update" =>
        LET id  == last'.id
            ver == last'.ver
            arg == [movie'[last'.proc][1] EXCEPT !.Version = ver]
        IN /\ last'.err \in {Nil, ErrEditConflict}
           /\ (last'.err = Nil) <=> (HasRow(db, id) /\ db[id].version = ver)
           /\ last'.err = Nil =>
                 /\ DOMAIN db' = DOMAIN db
                 /\ db'[id] = Row(arg, ver + 1)
                 /\ SameRowsExcept(db, db', id)
           /\ last'.err = ErrEditConflict => db' = db
C2_UpdateIffIdAndVersionMatch == [][C2_UpdateStep]_vars

(* C2 witness: an Update of a row deleted since it was read, and a stale   *)
(* Update of a row that still exists, both refused                         *)
C2_Witness ==
    /\ last.op = "Update" /\ last.err = ErrEditConflict
    /\ ~HasRow(db, last.id)
    /\ last.id \in deleted
    /\ db # <<>>
C2_WitnessStale ==
    /\ last.op = "Update" /\ last.err = ErrEditConflict
    /\ HasRow(db, last.id)
    /\ db[last.id].version > last.ver

(* C3: the version of every stored record is 1 plus the number of          *)
(* successful Updates of it, and a successful Update hands the new version *)
(* to the caller's record.                                                 *)
C3_VersionCountsUpdates ==
    /\ \A id \in DOMAIN db : db[id].version = 1 + updates[id]
    /\ (last.op = "Update" /\ last.err = Nil) =>
           /\ movie[last.proc][1].Version = last.ver + 1
           /\ movie[last.proc][1].Version = db[last.id].version
    /\ (last.op = "Insert") => movie[last.proc][1].Version = 1

(* C3 witness: a record inserted after another was deleted, updated once,  *)
(* and then a refused Update of it                                         *)
C3_Witness ==
    /\ last.op = "Update" /\ last.err = ErrEditConflict
    /\ HasRow(db, last.id)
    /\ deleted # {}
    /\ updates[last.id] = 1
    /\ db[last.id].version = 2

(* C7: Delete returns nil exactly when a row with the id exists and then   *)
(* removes that row alone; otherwise it returns ErrRecordNotFound and      *)
(* changes nothing; every Get or Delete of an id whose row was deleted     *)
(* returns ErrRecordNotFound.                                              *)
C7_DeleteStep ==
    last'.op = "Delete" =>
        /\ last'.err \in {Nil, ErrRecordNotFound}
        /\ (last'.err = Nil) <=> HasRow(db, last'.id)
        /\ last'.err = Nil =>
              /\ DOMAIN db' = (DOMAIN db) \ {last'.id}
              /\ SameRowsExcept(db, db', last'.id)
        /\ last'.err = ErrRecordNotFound => db' = db
C7_GoneStep ==
    (last'.op \in {"Get", "Delete"} /\ last'.id \in deleted)
        => last'.err = ErrRecordNotFound
C7_StaysGone == \A id \in deleted' : ~HasRow(db', id)
C7_DeleteRemovesForGood ==
    [][C7_DeleteStep /\ C7_GoneStep /\ C7_StaysGone]_vars

(* C7 witness: the second Delete of an id is refused, after a later Insert *)
C7_Witness ==
    /\ last.op = "Delete" /\ last.err = ErrRecordNotFound
    /\ last.id \in deleted
    /\ \E id \in DOMAIN db : id > last.id

----------------------------------------------------------------------------
(* Properties of the handlers *)

(* C4: an update request whose movie was read at a version that is no      *)
(* longer the stored one is answered with the edit conflict response and   *)
(* changes no stored record.                                               *)
C4_StaleStep ==
    (/\ req'.route = "update"
     /\ last'.op = "Update"
     /\ HasRow(db, last'.id)
     /\ db[last'.id].version # last'.ver)
    => /\ ResponseStatus(resp') = StatusConflict
       /\ db' = db
C4_StaleRequestAnsweredWithConflict == [][C4_StaleStep]_vars

(* C4 witness: B's update request, based on the version A's request has    *)
(* since replaced, is refused by the store, the row is as A wrote it, and  *)
(* the response is a server error followed by the movie                    *)
C4_Witness ==
    /\ req.route = "update"
    /\ last.op = "Update" /\ last.proc = "B" /\ last.err = ErrEditConflict
    /\ HasRow(db, last.id)
    /\ db[last.id].version = last.ver + 1
    /\ resp = << [status |-> StatusInternalServerError, key |-> "error"],
                 [status |-> StatusOK, key |-> "movie"] >>

(* C5: when the Update called by updateMovieHandler returns                *)
(* ErrEditConflict, the response of the request has status 409.            *)
C5_ConflictAnswered409 ==
    (/\ req.route = "update"
     /\ last.op = "Update"
     /\ last.err = ErrEditConflict)
    => ResponseStatus(resp) = StatusConflict

(* C5 witness: the movie was deleted between the handler's Get and its     *)
(* Update; the status the client receives is 500                           *)
C5_Witness ==
    /\ req.route = "update"
    /\ last.op = "Update" /\ last.err = ErrEditConflict
    /\ last.id \in deleted
    /\ ResponseStatus(resp) = StatusInternalServerError
    /\ Len(resp) = 2

(* The id parameters that are malformed or name no positive id *)
BadIDParams == { <<"0">>, <<"-", "5">>, <<"1", "?">> }

(* C6: Get and Delete with an id below 1 return ErrRecordNotFound without  *)
(* a query and leave the store unchanged; a show, update or delete request *)
(* with a malformed or non-positive id parameter gets the not-found        *)
(* response and makes no store call.                                       *)
C6_StoreStep ==
    (last'.op \in {"Get", "Delete"} /\ last'.id < 1)
    => /\ last'.err = ErrRecordNotFound
       /\ ~last'.queried
       /\ db' = db
C6_HandlerStep ==
    (req'.route \in {"show", "update", "delete"} /\ req'.id \in BadIDParams)
    => /\ resp' = << [status |-> StatusNotFound, key |-> "error"] >>
       /\ last'.op = "none"
       /\ db' = db
       /\ pc' = pc
C6_NonPositiveIdNotFound == [][C6_StoreStep /\ C6_HandlerStep]_vars

(* C6 witness: Delete(-5) on a store that holds rows, refused unqueried *)
C6_Witness ==
    /\ last.op = "Delete" /\ last.id = -5
    /\ last.err = ErrRecordNotFound
    /\ ~last.queried
    /\ db # <<>>
    /\ req = NoRequest

(* C6, the handlers' side: a delete request for "-5" answered 404 while    *)
(* the store holds rows                                                    *)
C6_WitnessHandler ==
    /\ req = [route |-> "delete", id |-> <<"-", "5">>]
    /\ ResponseStatus(resp) = StatusNotFound
    /\ last.op = "none"
    /\ db # <<>>

(* The validation rules, stated on a row of the table; the title of a row  *)
(* is the sequence of its bytes                                            *)
RowSatisfiesRules(row) ==
    /\ row.title # <<>> /\ Len(row.title) <= 500
    /\ row.year >= 1888 /\ row.year <= CurrentYear
    /\ row.runtime > 0
    /\ ~row.genres.isNil
    /\ \A i, j \in 1 .. Len(row.genres.elems) :
          row.genres.elems[i] = row.genres.elems[j] => i = j

(* C13: every stored record satisfies the validation rules, and a create   *)
(* or update request answered with a decoding or validation failure made   *)
(* no store call and left the table unchanged.                             *)
C13_Step ==
    /\ \A id \in DOMAIN db' : RowSatisfiesRules(db'[id])
    /\ (/\ req'.route \in {"create", "update"}
        /\ ResponseStatus(resp') \in {StatusBadRequest, StatusUnprocessableEntity})
          => /\ db' = db
             /\ nextID' = nextID
             /\ last'.op = "none"
C13_StoredMoviesValid == [][C13_Step]_vars

(* C13 witness: an update request failed validation against a table that  *)
(* holds a record updated before                                           *)
C13_Witness ==
    /\ req.route = "update"
    /\ ResponseStatus(resp) = StatusUnprocessableEntity
    /\ last.op = "none"
    /\ \E id \in DOMAIN db : db[id].version = 2 /\ RowSatisfiesRules(db[id])

(* C14: a handler writes exactly one response per request; nothing         *)
(* follows an error response, and updateMovieHandler writes the 200        *)
(* response with the movie only when Update returned nil.                  *)
C14_OneResponsePerRequest ==
    req.route # "none"
    => /\ Len(resp) <= 1
       /\ resp = <<>> => (req.route = "update" /\ pc[last.proc] = "updating")
       /\ (/\ req.route = "update"
           /\ \E i \in 1 .. Len(resp) : resp[i] = [status |-> StatusOK, key |-> "movie"])
             => (last.op = "Update" /\ last.err = Nil)

(* C14 witness: after a refused Update the response of A's request holds   *)
(* the error envelope and then the 200 envelope with the movie             *)
C14_Witness ==
    /\ req.route = "update"
    /\ last.op = "Update" /\ last.proc = "A" /\ last.err # Nil
    /\ Len(resp) = 2
    /\ resp[1].key = "error"
    /\ resp[2] = [status |-> StatusOK, key |-> "movie"]

(* C14, what does hold: every request but an update whose Update was       *)
(* refused gets exactly one response                                       *)
C14_OneResponseElsewhere ==
    (req.route # "none" /\ ~(last.op = "Update" /\ last.err # Nil))
    => /\ Len(resp) <= 1
       /\ resp = <<>> => (req.route = "update" /\ pc[last.proc] = "updating")

----------------------------------------------------------------------------
(* Properties of the validator *)

FailingChecks(cs, key) == {i \in 1 .. Len(cs) : ~cs[i].ok /\ cs[i].key = key}
FirstOf(S) == CHOOSE i \in S : \A j \in S : i <= j
KeysOf(cs) == {cs[i].key : i \in 1 .. Len(cs)}

(* The calls made so far are Check calls *)
OnlyChecks(cs) == \A i \in 1 .. Len(cs) : cs[i].call = "Check"

(* What the Check calls made so far must have left in the errors map *)
FirstFailures(val, cs) ==
    /\ DOMAIN val.Errors = {key \in KeysOf(cs) : FailingChecks(cs, key) # {}}
    /\ \A key \in DOMAIN val.Errors :
          val.Errors[key] = cs[FirstOf(FailingChecks(cs, key))].message
    /\ Valid(val) <=> \A i \in 1 .. Len(cs) : cs[i].ok

(* C8: after any sequence of Check calls, the message stored for a field   *)
(* is that of the first failing Check on the field, a Check with a true    *)
(* condition changes nothing, a stored message is never replaced or        *)
(* removed, and Valid holds exactly when no Check has failed.              *)
C8_CheckStep ==
    OnlyChecks(checks')
    => /\ FirstFailures(validator', checks')
       /\ (Len(checks') = Len(checks) + 1 /\ checks'[Len(checks')].ok)
             => validator' = validator
       /\ \A key \in DOMAIN validator.Errors :
             /\ key \in DOMAIN validator'.Errors
             /\ validator'.Errors[key] = validator.Errors[key]
C8_FirstFailureKept == [][C8_CheckStep]_vars

(* C8 witness: three Checks of one field, the first passed, the second and *)
(* the third failed with different messages, and the second's is stored    *)
C8_Witness ==
    /\ subject = <<>>
    /\ Len(checks) = 3
    /\ OnlyChecks(checks)
    /\ checks[1].ok /\ ~checks[2].ok /\ ~checks[3].ok
    /\ checks[1].key = checks[2].key /\ checks[2].key = checks[3].key
    /\ checks[2].message # checks[3].message
    /\ validator.Errors[checks[2].key] = checks[2].message

(* C9: a movie that passes ValidateMovie has between 1 and 5 genres, and a *)
(* movie with an empty list of genres or with 6 or more genres has an      *)
(* error under "genres".                                                   *)
C9_GenresBetweenOneAndFive ==
    (subject # <<>> /\ checks # <<>>)
    => LET genres == subject[1].Genres
           n      == Len(genres.elems)
       IN /\ Valid(validator) => (n >= 1 /\ n <= 5)
          /\ (~genres.isNil /\ (n = 0 \/ n >= 6))
                => "genres" \in DOMAIN validator.Errors

(* C9 witness: an otherwise valid movie whose list of genres is empty but  *)
(* not nil has passed ValidateMovie                                        *)
C9_Witness ==
    /\ subject # <<>> /\ checks # <<>>
    /\ subject[1].Genres = Slice(<<>>)
    /\ Valid(validator)

(* C9, the other side: a movie with 6 distinct genres has passed           *)
C9_WitnessSix ==
    /\ subject # <<>> /\ checks # <<>>
    /\ Len(subject[1].Genres.elems) = 6
    /\ Valid(validator)

----------------------------------------------------------------------------
(* Properties of the Runtime codec *)

(* C10: UnmarshalJSON applied to the bytes MarshalJSON produced for a      *)
(* Runtime n returns no error and sets the target to n.                    *)
C10_RuntimeRoundTrip ==
    (rt.pc = "decoded" /\ rt.src = "runtime")
    => /\ rt.err = Nil
       /\ rt.target = rt.r

(* C10 witness: the smallest int32 went through both functions into a      *)
(* target that held another value                                          *)
C10_Witness ==
    /\ rt.pc = "decoded" /\ rt.src = "runtime"
    /\ rt.r = MinInt32
    /\ rt.t0 # rt.r
    /\ rt.target = MinInt32
    /\ rt.err = Nil

(* The text "<int> mins" of the wire format, stated apart from the code:   *)
(* a numeral is an optional sign and decimal digits                        *)
Int32MaxDigits == <<"2", "1", "4", "7", "4", "8", "3", "6", "4", "7">>
Int32MinDigits == <<"2", "1", "4", "7", "4", "8", "3", "6", "4", "8">>
NumeralBody(s) == IF s # <<>> /\ s[1] \in {"-", "+"} THEN Tail(s) ELSE s
IsNumeral(s) ==
    /\ NumeralBody(s) # <<>>
    /\ \A i \in 1 .. Len(NumeralBody(s)) : NumeralBody(s)[i] \in DigitSet
NumeralInInt32(s) ==
    ~DigitsGreater(StripZeros(NumeralBody(s)),
                   IF s[1] = "-" THEN Int32MinDigits ELSE Int32MaxDigits)
NumeralValue(s) ==
    IF s[1] # "-" THEN MagValue(StripZeros(NumeralBody(s)), 0)
    ELSE IF StripZeros(NumeralBody(s)) = Int32MinDigits THEN MinInt32
    ELSE 0 - MagValue(StripZeros(NumeralBody(s)), 0)
(* The text a JSON string literal stands for, s what lies between its      *)
(* quotes: the escapes of JSON are two-character escapes and \u with four  *)
(* hexadecimal digits; what is not JSON gives a byte that no text has      *)
NotJSON == "NOTJSON"
JSONEscapes == {Quote2, BackSlash, "/", "b", "f", "n", "r", "t"}
JSONEscaped(c) ==
    CASE c = "b" -> ByteOf(8)
      [] c = "f" -> ByteOf(12)
      [] c = "n" -> ByteOf(10)
      [] c = "r" -> ByteOf(13)
      [] c = "t" -> ByteOf(9)
      [] OTHER -> c
RECURSIVE JSONText(_)
JSONText(s) ==
    IF s = <<>>
    THEN <<>>
    ELSE IF s[1] = Quote2 \/ CodeOf(s[1]) < 32
    THEN <<NotJSON>>
    ELSE IF s[1] # BackSlash
    THEN <<s[1]>> \o JSONText(Tail(s))
    ELSE IF Len(s) >= 2 /\ s[2] \in JSONEscapes
    THEN <<JSONEscaped(s[2])>> \o JSONText(SubSeq(s, 3, Len(s)))
    ELSE IF Len(s) >= 6 /\ s[2] = "u" /\ HexValue(SubSeq(s, 3, 6), 0) >= 0
    THEN EncodeRune(HexValue(SubSeq(s, 3, 6), 0)) \o JSONText(SubSeq(s, 7, Len(s)))
    ELSE <<NotJSON>>

(* The text of the literal js, and the numeral before its " mins" *)
RuntimeText(js) == JSONText(SubSeq(js, 2, Len(js) - 1))
RuntimeNumeral(js) == SubSeq(RuntimeText(js), 1, Len(RuntimeText(js)) - 5)
WellFormedRuntime(js) ==
    /\ Len(js) >= 2
    /\ js[1] = Quote2 /\ js[Len(js)] = Quote2
    /\ Len(RuntimeText(js)) >= 6
    /\ SubSeq(RuntimeText(js), Len(RuntimeText(js)) - 4, Len(RuntimeText(js))) = Mins
    /\ IsNumeral(RuntimeNumeral(js))
    /\ NumeralInInt32(RuntimeNumeral(js))

(* C11: UnmarshalJSON returns nil with result n only for a quoted string   *)
(* "<int> mins" whose integer is n and fits 32 bits; for every other input *)
(* it returns ErrInvalidRuntimeFormat and leaves the target unchanged.     *)
C11_OnlyInt32RuntimeAccepted ==
    rt.pc = "decoded"
    => /\ rt.err \in {Nil, ErrInvalidRuntimeFormat}
       /\ rt.err = Nil =>
             /\ WellFormedRuntime(rt.js)
             /\ rt.target = NumeralValue(RuntimeNumeral(rt.js))
       /\ ~WellFormedRuntime(rt.js) =>
             /\ rt.err = ErrInvalidRuntimeFormat
             /\ rt.target = rt.t0

(* C11 witness: "2147483648 mins" is accepted and the target holds the     *)
(* smallest int32                                                          *)
C11_Witness ==
    /\ rt.pc = "decoded" /\ rt.src = "bytes"
    /\ rt.js = Quoted(Int32MinDigits \o Mins)
    /\ rt.err = Nil
    /\ rt.target = MinInt32

(* C11, what does hold: an input that is refused is refused with           *)
(* ErrInvalidRuntimeFormat and the target keeps its value                  *)
C11_RefusedLeavesTarget ==
    (rt.pc = "decoded" /\ rt.err # Nil)
    => /\ rt.err = ErrInvalidRuntimeFormat
       /\ rt.target = rt.t0
       /\ rt.src = "bytes"

----------------------------------------------------------------------------
(* Properties of readJSON *)

(* What a body is, stated on the body itself: the keys of the target, the  *)
(* JSON type each takes, and a value that fits the target                  *)
KnownKeys == {TitleKey, YearKey, RuntimeKey, GenresKey}
MemberFits(mem) ==
    CASE mem.k = TitleKey   -> mem.v.t \in {"string", "null"}
      [] mem.k = YearKey    ->
            \/ mem.v.t = "null"
            \/ /\ mem.v.t = "number"
               /\ IsNumeral(mem.v.raw)
               /\ NumeralInInt32(mem.v.raw)
      [] mem.k = GenresKey  -> mem.v.t \in {"array", "null"}
      [] mem.k = RuntimeKey -> WellFormedRuntime(mem.v.raw)
      [] OTHER             -> FALSE
UnknownKeys(v) ==
    {v.m[i].k : i \in {j \in 1 .. Len(v.m) : v.m[j].k \notin KnownKeys}}
KnownMembersFit(v) ==
    \A i \in 1 .. Len(v.m) : v.m[i].k \in KnownKeys => MemberFits(v.m[i])
FitsTarget(v) ==
    \/ v.t = "null"
    \/ v.t = "object" /\ UnknownKeys(v) = {} /\ KnownMembersFit(v)
MismatchedKeys(v) ==
    {v.m[i].k : i \in {j \in 1 .. Len(v.m) :
                          /\ v.m[j].k \in KnownKeys \ {RuntimeKey}
                          /\ ~MemberFits(v.m[j])}}
RuntimeMembersFit(v) ==
    \A i \in 1 .. Len(v.m) : v.m[i].k = RuntimeKey => MemberFits(v.m[i])

Refused(res, msg) == ~res.ok /\ res.msg = msg

C12_Classified(body, res) ==
    /\ res.ok => (Len(body) = 1 /\ FitsTarget(body[1]))
    /\ body = <<>> => Refused(res, "body must not be empty")
    /\ (body # <<>> /\ body[1].t = "syntax")
          => Refused(res, "body contains badly-formed JSON (at character)")
    /\ (body # <<>> /\ body[1].t = "truncated")
          => Refused(res, "body contains badly-formed JSON")
    /\ (body # <<>> /\ body[1].t = "overlimit")
          => Refused(res, "body must not be larger than bytes")
    /\ (body # <<>> /\ body[1].t \in {"number", "string", "array"})
          => Refused(res, "body contains incorrect JSON type (at character)")
    /\ (body # <<>> /\ body[1].t = "object" /\ UnknownKeys(body[1]) = {}
        /\ RuntimeMembersFit(body[1]) /\ MismatchedKeys(body[1]) # {})
          => /\ Refused(res, "body contains incorrect JSON type for field")
             /\ res.arg \in MismatchedKeys(body[1])
    /\ (body # <<>> /\ body[1].t = "object" /\ UnknownKeys(body[1]) # {}
        /\ KnownMembersFit(body[1]))
          => /\ Refused(res, "body contains unknown key")
             /\ res.arg \in UnknownKeys(body[1])
    /\ (Len(body) >= 2 /\ FitsTarget(body[1]))
          => Refused(res, "body must contain a single JSON value")

(* C12: readJSON returns nil only for a body of exactly one JSON value     *)
(* that fits the target; an empty body, a body with an unknown key, and a  *)
(* body with anything after its first value are refused with their own     *)
(* errors, as are syntax errors, truncation and type mismatches.           *)
C12_ReadJSONClassifies ==
    rj.pc = "done" => C12_Classified(rj.body, rj.res)

(* C12 witness: a body whose runtime is "4294967301 mins" is accepted and  *)
(* the input struct holds runtime 5                                        *)
C12_Witness ==
    /\ rj.pc = "done"
    /\ rj.res.ok
    /\ Len(rj.body) = 1
    /\ ~FitsTarget(rj.body[1])
    /\ UnknownKeys(rj.body[1]) = {}
    /\ rj.res.input.Runtime = 5
    /\ rj.res.input.Title = Casablanca.Title

(* C12, what does hold: the same with a runtime taken to fit when          *)
(* UnmarshalJSON accepts it, for bodies whose keys name a field only by    *)
(* its exact name                                                          *)
RuntimeAccepted(v) ==
    \A i \in 1 .. Len(v.m) :
        v.m[i].k = RuntimeKey => UnmarshalJSON(0, v.m[i].v.raw).err = Nil
KeysExact(v) ==
    \A i \in 1 .. Len(v.m) : FieldOf(v.m[i].k) # 0 => v.m[i].k \in KnownKeys
C12_ExceptRuntimeRange ==
    (/\ rj.pc = "done"
     /\ (rj.body # <<>> /\ rj.body[1].t = "object")
           => /\ KeysExact(rj.body[1])
              /\ (RuntimeAccepted(rj.body[1]) => RuntimeMembersFit(rj.body[1])))
    => C12_Classified(rj.body, rj.res)

(* C12, the keys: a body whose title is sent under the key "Title" is      *)
(* accepted and the input struct holds the title                           *)
C12_WitnessFoldedKey ==
    /\ rj.pc = "done"
    /\ rj.res.ok
    /\ Len(rj.body) = 1
    /\ Len(rj.body[1].m) = 1
    /\ rj.body[1].m[1].k = TitleKeyCapital
    /\ rj.res.input.Title = Casablanca.Title

(* C12, the other messages: a refused runtime ends the decoding with its   *)
(* own error, which readJSON passes on                                     *)
C12_WitnessOpaque ==
    /\ rj.pc = "done"
    /\ Refused(rj.res, ErrInvalidRuntimeFormat)
    /\ UnknownKeys(rj.body[1]) # {}

=============================================================================
